---- MODULE Spec2Model ----
(***************************************************************************)
(* Audio trigger pipeline of replay-swing: the AudioDetector worker        *)
(* thread (audio_engine.py), the AudioClassifier it owns, the training     *)
(* store on disk, and the part of the main window (swing_capture.py) and   *)
(* the RecordingManager (recording.py) that consume trigger events.        *)
(*                                                                         *)
(* Units.  Time is counted in clock units of 1/UnitsPerMs millisecond;     *)
(* levels, thresholds and confidences are hundredths (0.45 is 45).         *)
(***************************************************************************)
EXTENDS Integers, Sequences, FiniteSets, TLC

\* ------------------------------------------------------------------ bounds
UnitsPerMs == 2            \* clock resolution: units per millisecond
StartTime == 40            \* time.time() when the program starts, in units
MaxFine == 2               \* fine clock ticks (one unit each) per coarse period
MaxCoarse == 1             \* coarse clock ticks (one cooldown period each)
MaxSessions == 2           \* AudioDetector objects created by _start_audio
MaxClips == 2              \* clips a session folder holds
BufferChunks == 1          \* int(audio_sample_rate / audio_chunk_size)
PostTriggerSeconds == 3    \* config.post_trigger_seconds as the user set it
MaxTriggers == 2           \* trigger events the detectors emit
MaxPastShots == 10         \* label-1 samples earlier runs left in the store
MaxSamples == 3            \* samples in an input of extract
MaxAdds == 4               \* frames added to a FrameBuffer between two clears
MaxShotNumber == 2         \* highest shot number save_clip gives out
MaxRelabels == 3           \* calls of _relabel_audio_sample with one timestamp
MaxPdTime == 60            \* last time, in tenths of a second, of the PersonDetector's clock
MaxConsecutive == 8        \* highest value of the PersonDetector's counters
MaxRmClips == 2            \* entries of RecordingManager.clips when save_clip is called

\* ------------------------------------------------------- program constants
CHUNKS_NEEDED == 4         \* self._chunks_needed
CONFIDENCE_MIN == 45       \* confidence >= 0.45
PRESENCE_THRESHOLD == 3    \* _presence_threshold
ABSENCE_THRESHOLD == 6     \* _absence_threshold
CHECK_INTERVAL == 5        \* _check_interval = 0.5, in tenths of a second
MAX_FAILURES == 30         \* consecutive_failures > 30 reconnects
MAX_BACKOFF == 30          \* min(backoff * 2, 30.0)
COOLDOWN_SECONDS == 3      \* cooldown_duration = 3.0
DEFAULT_THRESHOLD == 30    \* AppConfig.audio_threshold = 0.3
MIN_SAMPLES == 10          \* len(X_list) < 10

UnitsPerSecond == 1000 * UnitsPerMs
\* The cooldown cut to half its length
HalfCooldown == (COOLDOWN_SECONDS * UnitsPerSecond) \div 2
CooldownDuration == COOLDOWN_SECONDS * UnitsPerSecond
PostTrigger == PostTriggerSeconds * UnitsPerSecond

NoDevice == -1              \* audio_device_index = None
NoTime == -1                \* last_trigger_timestamp = None, no sample yet
NoLabel == -1               \* meta.get("label") is None
NoLevel == -1               \* no chunk read in this iteration

\* int(time.time() * 1000): the clock truncated to whole milliseconds
Timestamp(t) == t \div UnitsPerMs

\* ------------------------------------------------------------------ inputs
\* rms of a chunk, in thousandths
RmsValues == {14, 15, 29, 30, 150}
\* values the threshold slider sets (value / 100.0)
Thresholds == {30, 60}
\* audio_device_combo.currentData()
Devices == {NoDevice, 1}

\* Feature vectors extract() can return, reduced to the six features the
\* heuristic reads (ratios in hundredths).
FeatureProfile(i) ==
    CASE i = 1 -> [crest_factor |-> 7, impact_ratio |-> 0, rise_time |-> 10,
                   zcr |-> 0, spectral_centroid |-> 0, energy_0_500 |-> 0]
      [] OTHER -> [crest_factor |-> 5, impact_ratio |-> 35, rise_time |-> 200,
                   zcr |-> 0, spectral_centroid |-> 0, energy_0_500 |-> 0]
FeatureIds == 1..2

\* predict_proba of a fitted model is opaque: any of these
LearnedConfidences == {44, 45}

\* ------------------------------------------------------------- pure helpers
Max2(a, b) == IF a > b THEN a ELSE b
Min2(a, b) == IF a < b THEN a ELSE b

\* The level without the cap at 1.0
LevelUncapped(rms) == rms

\* level = min(1.0, rms * 10), in hundredths: ten times a number of
\* thousandths is that number of hundredths
LevelOf(rms) == Min2(100, rms)

\* the levels a chunk can have
Levels == {LevelOf(rms) : rms \in RmsValues}

\* Lines 182-225: the points of the rules, added up
HeuristicScore(f) ==
    LET cf == IF f.crest_factor > 6 THEN 25
              ELSE IF f.crest_factor > 4 THEN 15
              ELSE IF f.crest_factor > 3 THEN 5 ELSE 0
        ir == IF f.impact_ratio > 30 THEN 25
              ELSE IF f.impact_ratio > 15 THEN 15
              ELSE IF f.impact_ratio > 8 THEN 5 ELSE 0
        rt == IF f.rise_time < 30 THEN 20
              ELSE IF f.rise_time < 80 THEN 10
              ELSE IF f.rise_time < 150 THEN 5 ELSE 0
        zc == IF 5 < f.zcr /\ f.zcr < 35 THEN 10 ELSE 0
        sc == IF 1500 < f.spectral_centroid /\ f.spectral_centroid < 5000 THEN 15
              ELSE IF 800 < f.spectral_centroid /\ f.spectral_centroid < 7000 THEN 5
              ELSE 0
        lf == IF f.energy_0_500 > 70 THEN 15 ELSE 0
    IN  cf + ir + rt + zc + sc - lf

\* The score returned as it was added up
ClassifyUnclamped(f) == HeuristicScore(f)

\* AudioClassifier._classify_heuristic: line 227 clamps the score
ClassifyHeuristic(f) == Max2(0, Min2(100, HeuristicScore(f)))

\* ------------------------------------------------------------------- state
VARIABLES
    now,                    \* time.time(), in clock units
    AUDIO_AVAILABLE,        \* pyaudio imported
    SKLEARN_AVAILABLE,      \* scikit-learn imported
    audio_threshold,        \* config.audio_threshold
    audio_device_index,     \* config.audio_device_index (shared with the detector)
    audio_detector,         \* main window: self.audio_detector is not None
    session,                \* number of AudioDetector objects created so far
    running,                \* AudioDetector.running
    threshold,              \* AudioDetector.threshold
    chunk_accumulator,      \* _chunk_accumulator; each chunk as "a chunk of the
                            \* stream was lost between the previous one and me"
    gapSince,               \* a chunk was lost since the last append
    audio_ring,             \* len(_audio_ring)
    wpc,                    \* position of the worker thread in run()
    stream,                 \* "none" | "open" | "closed"
    terminated,             \* p.terminate() was called
    thresh, level, features, confidence, current_time, cooldown_time,
                            \* locals of run()
    mode, model, scaler,    \* the AudioClassifier
    scalerRead,             \* _classify_learned: self.scaler as read at line 231
    modelFile,              \* CLASSIFIER_PATH: NoBundle or the pickled bundle
    store,                  \* TRAINING_DATA_DIR: timestamp -> files of one sample
    sigQueue,               \* trigger_detected signals queued for the UI thread
    dir_exists,             \* TRAINING_DATA_DIR.exists()
    dir_names,              \* names of the files in TRAINING_DATA_DIR
    count_result,           \* what training_sample_count returned last
    counted,                \* it returned that since the directory last changed
    h_features,             \* the argument of _classify_heuristic
    h_result,               \* what it returned
    h_called,               \* it has returned
    x_samples,              \* the argument of extract
    x_result,               \* what it returned
    x_called,               \* it has returned
    max_frames,             \* FrameBuffer.max_frames
    buffer,                 \* FrameBuffer.buffer: (frame, timestamp) pairs
    fb_added,               \* history: the pairs added since the last clear
    fb_returned,            \* what get_frames returned last
    fb_fresh,               \* it returned that since the buffer last changed
    session_folder,         \* names of the files in the session folder, clips.json apart
    clips_json,             \* clips.json in the session folder
    rm_constructed,         \* a RecordingManager exists
    rm_clips,               \* its clips
    shot_count,             \* its shot_count
    rm_last,                \* history: its last call, arguments and return value
    relabel_ts,             \* the argument of _relabel_audio_sample
    relabel_calls,          \* history: the calls made with it
    pd_now,                 \* time.time() for the PersonDetector, in tenths of a second
    last_check_time,        \* PersonDetector._last_check_time
    person_present,         \* PersonDetector._person_present
    consecutive_present,    \* PersonDetector._consecutive_present
    consecutive_absent,     \* PersonDetector._consecutive_absent
    pd_result,              \* what check returned last: "None", "True" or "False"
    pd_detected,            \* history: detected of the last evaluated checks
    cam_running,            \* CameraCapture.running
    cam_pc,                 \* position of the capture thread in run()
    cap_open,               \* self.cap is not None and self.cap.isOpened()
    connection_state,       \* the state connection_state emitted last
    consecutive_failures,   \* local of run()
    backoff,                \* local of _reconnect_loop, in seconds
    rc_caller,              \* where _reconnect_loop was called from
    frame_delivered,        \* history: frame_ready was emitted since the last open
    level_update,           \* level_update values emitted for this iteration's chunk
    lastFire,               \* history: current_time of this session's last trigger
    emitted,                \* history: number of trigger events emitted
    unlockedAccesses,       \* history: cross-thread accesses made without _lock
    uiPc, uiRestart,        \* position of the UI thread; _start_audio follows stop
    is_armed, is_recording, recording_start_time,
    last_trigger_timestamp,
    lastTrigger,            \* history: trigger that wrote last_trigger_timestamp
    recTrigger,             \* history: trigger that started the recording
    clips,                  \* RecordingManager.clips
    fit,                    \* retrain(): the local model and scaler just fitted
    retrainResult           \* history: "none", or what the last retrain() returned

clockVars == <<now>>
envVars == <<AUDIO_AVAILABLE, SKLEARN_AVAILABLE>>
cfgVars == <<audio_threshold, audio_device_index>>
detVars == <<audio_detector, session, running, threshold>>
accVars == <<chunk_accumulator, gapSince, audio_ring>>
thrVars == <<wpc, stream, terminated>>
locVars == <<thresh, level, level_update, features, confidence, current_time, cooldown_time>>
clsVars == <<mode, model, scaler, scalerRead>>
fileVars == <<modelFile, store>>
histVars == <<lastFire, emitted, unlockedAccesses>>
uiVars == <<uiPc, uiRestart, is_armed>>
recVars == <<is_recording, recording_start_time, last_trigger_timestamp,
             lastTrigger, recTrigger, clips>>
retVars == <<fit, retrainResult>>
appVars == <<clockVars, envVars, cfgVars, detVars, accVars, thrVars, locVars,
             clsVars, fileVars, sigQueue, histVars, uiVars, recVars, retVars>>
\* the training directory as a listing of names
dirVars == <<dir_exists, dir_names, count_result, counted>>
\* components that are exercised on their own
\* a call of _classify_heuristic
heurVars == <<h_features, h_result, h_called>>
\* a call of AudioFeatureExtractor.extract
extVars == <<x_samples, x_result, x_called>>
\* a FrameBuffer
fbVars == <<max_frames, buffer, fb_added, fb_returned, fb_fresh>>
\* a RecordingManager over its session folder
rmVars == <<session_folder, clips_json, rm_constructed, rm_clips, shot_count, rm_last>>
\* calls of _relabel_audio_sample
relVars == <<relabel_ts, relabel_calls>>
\* a PersonDetector and its clock
pdVars == <<pd_now, last_check_time, person_present, consecutive_present,
            consecutive_absent, pd_result, pd_detected>>
\* the capture thread of a network camera
camVars == <<cam_running, cam_pc, cap_open, connection_state, consecutive_failures,
             backoff, rc_caller, frame_delivered>>
unitVars == <<dirVars, heurVars, extVars, fbVars, rmVars, relVars, pdVars, camVars>>
vars == <<appVars, unitVars>>

\* A fitted model or scaler is identified by the training set it was fitted on:
\* the numbers of label-0 and label-1 rows of X_list.
NoFit == [n0 |-> 0, n1 |-> 0]
\* The model file: absent, a complete pickled bundle (valid), or a file that
\* open(..., "wb") truncated and pickle.dump did not finish.
NoBundle == [exists |-> FALSE, valid |-> FALSE, model |-> NoFit, scaler |-> NoFit,
             n_samples |-> 0]
TornBundle == [exists |-> TRUE, valid |-> FALSE, model |-> NoFit, scaler |-> NoFit,
               n_samples |-> 0]
\* The bundle with the label-1 rows alone counted as its samples
BundleCountingShots(f) == [exists |-> TRUE, valid |-> TRUE, model |-> f, scaler |-> f,
                           n_samples |-> f.n1]
Bundle(f) == [exists |-> TRUE, valid |-> TRUE, model |-> f, scaler |-> f,
              n_samples |-> f.n0 + f.n1]
OldBundle == Bundle([n0 |-> 1, n1 |-> 9])
\* A file that unpickles to a mapping with "model" and without "scaler"
IncompleteBundle == [exists |-> TRUE, valid |-> FALSE, model |-> OldBundle.model,
                     scaler |-> NoFit, n_samples |-> 0]

\* A trigger event is identified by the detector that emitted it and by its
\* current_time; the manual button is the trigger of no detector.
Manual == [session |-> 0, time |-> 0]

\* Files of one sample of the training store: the two wav names, and the
\* metadata file ("none", "ok" or "corrupt") with the fields json.load returns
\* (label NoLabel: no "label" key; features 0: no features).  trigger is
\* history: the trigger event _save_trigger_snippet wrote the metadata for.
NoSample == [shot_wav |-> FALSE, not_shot_wav |-> FALSE, meta |-> "none",
             label |-> 0, confidence |-> 0, features |-> 0, threshold |-> 0,
             trigger |-> Manual]

SampleAt(ts) == IF ts \in DOMAIN store THEN store[ts] ELSE NoSample
PutSample(ts, rec) == [t \in (DOMAIN store) \cup {ts} |-> IF t = ts THEN rec ELSE store[t]]

\* --------------------------------------------------------------- AudioClassifier
\* AudioClassifier.__init__ and _load_model: the state a new classifier starts in
\* (pickle.load of a torn file raises, and line 171 swallows it)
\* The load taking any file that exists for a bundle
LoadsAnyFile == SKLEARN_AVAILABLE /\ modelFile.exists

Loads == SKLEARN_AVAILABLE /\ modelFile.exists /\ modelFile.valid
LoadedMode == IF Loads THEN "learned" ELSE "heuristic"
\* line 166 assigns data["model"] before line 167 looks up "scaler"
LoadedModel == IF SKLEARN_AVAILABLE /\ modelFile.exists THEN modelFile.model ELSE NoFit
LoadedScaler == IF Loads THEN modelFile.scaler ELSE NoFit

\* ------------------------------------------------------------------- the clock
TickFine ==
    /\ (now - StartTime) % CooldownDuration < MaxFine
    /\ now' = now + 1
    /\ UNCHANGED <<envVars, unitVars, cfgVars, detVars, accVars, thrVars, locVars, clsVars,
                   fileVars, sigQueue, histVars, uiVars, recVars, retVars>>

TickCoarse ==
    /\ (now - StartTime) \div CooldownDuration < MaxCoarse
    /\ now' = now + CooldownDuration
    /\ UNCHANGED <<envVars, unitVars, cfgVars, detVars, accVars, thrVars, locVars, clsVars,
                   fileVars, sigQueue, histVars, uiVars, recVars, retVars>>

\* ------------------------------------------------------ AudioDetector.run
\* Locals of run() that are dead at the head of the loop (each is assigned
\* again before it is read) are put back to these values there.
DeadLocals ==
    /\ thresh' = 0 /\ features' = 1 /\ confidence' = 0 /\ current_time' = 0

\* A stream that opened with the except of lines 368-371 skipped
AfterOpenUnguarded(opened) == "loop"

\* Lines 367-372: p.open returns and the loop is entered, or it raises and
\* run() returns
AfterOpen(opened) == IF opened THEN "loop" ELSE "finished"

\* Lines 349-375: the thread starts running, sets its flag and opens the stream.
W_Begin ==
    /\ wpc = "started"
    /\ IF ~AUDIO_AVAILABLE
       THEN /\ wpc' = "finished"
            /\ UNCHANGED <<running, stream, terminated, cooldown_time>>
       ELSE /\ running' = TRUE
            /\ \E opened \in BOOLEAN :
                 /\ wpc' = AfterOpen(opened)
                 /\ IF opened
                    THEN /\ stream' = "open"
                         /\ cooldown_time' = 0
                         /\ UNCHANGED terminated
                    ELSE /\ terminated' = TRUE
                         /\ UNCHANGED <<stream, cooldown_time>>
    /\ UNCHANGED <<clockVars, envVars, unitVars, cfgVars, audio_detector, session, threshold,
                   accVars, thresh, level, level_update, features, confidence, current_time,
                   clsVars, fileVars, sigQueue, histVars, uiVars, recVars, retVars>>

\* Line 377: while self.running; lines 418-420 after the loop
W_LoopCheck ==
    /\ wpc = "loop"
    /\ IF running
       THEN /\ wpc' = "read"
            /\ UNCHANGED <<stream, terminated>>
       ELSE /\ stream' = "closed"
            /\ terminated' = TRUE
            /\ wpc' = "finished"
    /\ level' = NoLevel
    /\ level_update' = <<>>
    /\ UNCHANGED <<clockVars, envVars, unitVars, cfgVars, detVars, accVars, thresh, features,
                   confidence, current_time, cooldown_time, clsVars, fileVars,
                   sigQueue, histVars, uiVars, recVars, retVars>>

\* An exception of the loop body that leaves run()
OnChunkErrorEscapes == "finished"

\* Lines 415-416: except Exception logs and the while of line 377 goes on
OnChunkError == "loop"

\* Line 379 raises (the read fails): line 415 logs, next chunk.
W_ReadError ==
    /\ wpc = "read"
    /\ gapSince' = (Len(chunk_accumulator) > 0)
    /\ wpc' = OnChunkError
    /\ UNCHANGED <<clockVars, envVars, unitVars, cfgVars, detVars, chunk_accumulator, audio_ring,
                   stream, terminated, locVars, clsVars, fileVars, sigQueue,
                   histVars, uiVars, recVars, retVars>>

\* The gate with the threshold quartered instead of halved
GatedQuarter(lv, th) == 4 * lv < th

\* if level < thresh * 0.5
Gated(lv, th) == 2 * lv < th

\* len(self._chunk_accumulator) >= self._chunks_needed
WindowComplete(acc) == Len(acc) >= CHUNKS_NEEDED

\* The threshold of the configuration the application started with
StartThreshold == DEFAULT_THRESHOLD

\* Lines 391-392: thresh = self.threshold, read under the lock for each chunk
LockedThreshold == threshold

\* Lines 379-405: one chunk is read, metered, gated, accumulated; the fourth
\* accumulated chunk completes a window, whose features extract() returns.
W_Read ==
    /\ wpc = "read"
    /\ \E rms \in RmsValues :
         LET lv == LevelOf(rms)
             acc == Append(chunk_accumulator, gapSince) IN
         /\ emitted < MaxTriggers \/ Gated(lv, LockedThreshold)
         /\ level' = lv
         /\ level_update' = Append(level_update, lv)
         /\ audio_ring' = Min2(BufferChunks, audio_ring + 1)
         /\ gapSince' = FALSE
         /\ IF Gated(lv, LockedThreshold)
            THEN /\ chunk_accumulator' = <<>>
                 /\ wpc' = "loop"
                 /\ UNCHANGED <<thresh, features>>
            ELSE IF WindowComplete(acc)
            THEN /\ chunk_accumulator' = <<>>
                 /\ thresh' = LockedThreshold
                 /\ \E f \in FeatureIds : features' = f
                 /\ wpc' = "classify"
            ELSE /\ chunk_accumulator' = acc
                 /\ wpc' = "loop"
                 /\ UNCHANGED <<thresh, features>>
    /\ UNCHANGED <<clockVars, envVars, unitVars, cfgVars, detVars, stream, terminated,
                   confidence, current_time, cooldown_time, clsVars, fileVars,
                   sigQueue, histVars, uiVars, recVars, retVars>>

\* Lines 174-178: classify() reads mode and model, and scores at once in
\* heuristic mode.
W_Classify ==
    /\ wpc = "classify"
    /\ IF mode = "learned" /\ model # NoFit
       THEN /\ wpc' = "cls_scaler"
            /\ UNCHANGED confidence
       ELSE /\ confidence' = ClassifyHeuristic(FeatureProfile(features))
            /\ wpc' = "decide"
    /\ UNCHANGED <<clockVars, envVars, unitVars, cfgVars, detVars, accVars, stream, terminated,
                   thresh, level, level_update, features, current_time, cooldown_time, clsVars,
                   fileVars, sigQueue, histVars, uiVars, recVars, retVars>>

\* Line 231: self.scaler.transform(X); a missing scaler raises into line 415.
W_ClassifyScale ==
    /\ wpc = "cls_scaler"
    /\ IF scaler = NoFit
       THEN /\ wpc' = OnChunkError
            /\ DeadLocals
            /\ UNCHANGED scalerRead
       ELSE /\ wpc' = "cls_model"
            /\ scalerRead' = scaler
            /\ UNCHANGED <<thresh, features, confidence, current_time>>
    /\ UNCHANGED <<clockVars, envVars, unitVars, cfgVars, detVars, accVars, stream, terminated,
                   level, level_update, cooldown_time, mode, model, scaler, fileVars, sigQueue,
                   histVars, uiVars, recVars, retVars>>

\* Lines 232-234: self.model.predict_proba(X_scaled)
W_ClassifyPredict ==
    /\ wpc = "cls_model"
    /\ \E c \in LearnedConfidences : confidence' = c
    /\ scalerRead' = NoFit
    /\ wpc' = "decide"
    /\ UNCHANGED <<clockVars, envVars, unitVars, cfgVars, detVars, accVars, stream, terminated,
                   thresh, level, level_update, features, current_time, cooldown_time, mode, model,
                   scaler, fileVars, sigQueue, histVars, uiVars, recVars, retVars>>

\* The decision with confidence > 0.45 instead of >= 0.45
FiresAbove(conf, lv, th, t, cd) == conf > CONFIDENCE_MIN /\ lv >= th /\ t > cd

\* The decision with the cooldown expiry itself counted as past
FiresAtExpiry(conf, lv, th, t, cd) == conf >= CONFIDENCE_MIN /\ lv >= th /\ t >= cd

\* Line 409: the trigger decision
Fires(conf, lv, th, t, cd) == conf >= CONFIDENCE_MIN /\ lv >= th /\ t > cd

\* Lines 408-411: the decision, and the event when it fires.
W_Decide ==
    /\ wpc = "decide"
    /\ IF Fires(confidence, level, thresh, now, cooldown_time)
       THEN /\ current_time' = now
            /\ sigQueue' = Append(sigQueue,
                   [trigger |-> [session |-> session, time |-> now],
                    confidence |-> confidence, features |-> features])
            /\ lastFire' = now
            /\ emitted' = emitted + 1
            /\ wpc' = "save"
            /\ UNCHANGED <<thresh, features, confidence>>
       ELSE /\ wpc' = "loop"
            /\ DeadLocals
            /\ UNCHANGED <<sigQueue, lastFire, emitted>>
    /\ UNCHANGED <<clockVars, envVars, unitVars, cfgVars, detVars, accVars, stream, terminated,
                   level, level_update, cooldown_time, clsVars, fileVars, unlockedAccesses,
                   uiVars, recVars, retVars>>

\* The save that writes the metadata without the waveform
SavedMetaOnly(outcome, ts) ==
    IF outcome = "saved"
    THEN PutSample(ts, [SampleAt(ts) EXCEPT !.meta = "ok", !.label = 1,
             !.confidence = confidence, !.features = features,
             !.threshold = threshold,
             !.trigger = [session |-> session, time |-> current_time]])
    ELSE store

\* Lines 422-452: the store after _save_trigger_snippet.  A failure is logged
\* and swallowed: before anything is written, or between wav and metadata.
SavedSnippet(outcome, ts) ==
    LET old == SampleAt(ts)
        wav == [old EXCEPT !.shot_wav = old.shot_wav \/ audio_ring > 0]
    IN  CASE outcome = "saved" ->
               PutSample(ts, [wav EXCEPT !.meta = "ok", !.label = 1,
                   !.confidence = confidence, !.features = features,
                   !.threshold = threshold,
                   !.trigger = [session |-> session, time |-> current_time]])
          [] outcome = "meta_failed" /\ audio_ring > 0 -> PutSample(ts, wav)
          [] OTHER -> store

\* Lines 412-413: _save_trigger_snippet, then the cooldown
W_Save ==
    /\ wpc = "save"
    /\ \E outcome \in {"saved", "wav_failed", "meta_failed"} :
         /\ store' = SavedSnippet(outcome, Timestamp(now))
         /\ unlockedAccesses' =
                IF outcome = "wav_failed" THEN unlockedAccesses
                ELSE unlockedAccesses \cup {<<"worker", "threshold", "read">>}
    /\ cooldown_time' = current_time + CooldownDuration
    /\ wpc' = "loop"
    /\ DeadLocals
    /\ UNCHANGED <<clockVars, envVars, unitVars, cfgVars, detVars, accVars, stream, terminated,
                   level, level_update, clsVars, modelFile, sigQueue, lastFire, emitted, uiVars,
                   recVars, retVars>>

\* ------------------------------------------------- main window: audio management
\* AudioDetector.__init__ (lines 322-338) followed by QThread.start()
NewDetector ==
    /\ audio_detector' = TRUE
    /\ session' = session + 1
    /\ running' = FALSE
    /\ threshold' = audio_threshold
    /\ chunk_accumulator' = <<>>
    /\ gapSince' = FALSE
    /\ audio_ring' = 0
    /\ mode' = LoadedMode
    /\ model' = LoadedModel
    /\ scaler' = LoadedScaler
    /\ scalerRead' = NoFit
    /\ wpc' = "started"
    /\ stream' = "none"
    /\ terminated' = FALSE
    /\ level' = NoLevel
    /\ level_update' = <<>>
    /\ cooldown_time' = 0
    /\ DeadLocals
    /\ lastFire' = NoTime

\* _start_audio, lines 1379-1392, when self.audio_detector is None iff ~exists
StartAudio(exists) ==
    IF ~AUDIO_AVAILABLE
    THEN /\ audio_detector' = exists
         /\ UNCHANGED <<session, running, threshold, accVars, thrVars, locVars,
                        clsVars, lastFire>>
    ELSE IF ~exists
    THEN NewDetector
    ELSE /\ audio_detector' = TRUE
         /\ wpc' = IF wpc \in {"unstarted", "finished"} THEN "started" ELSE wpc
         /\ UNCHANGED <<session, running, threshold, accVars, stream, terminated,
                        locVars, clsVars, lastFire>>

\* _toggle_armed, lines 1905-1929.  Disarming calls _stop_audio, whose stop()
\* (lines 454-456) clears the flag and then waits for the thread.
ToggleArmed ==
    /\ uiPc = "idle"
    /\ is_armed' = ~is_armed
    /\ IF ~is_armed
       THEN /\ session < MaxSessions
            /\ StartAudio(audio_detector)
            /\ UNCHANGED <<uiPc, uiRestart>>
       ELSE IF audio_detector
       THEN /\ running' = FALSE
            /\ uiPc' = "stop_wait"
            /\ uiRestart' = FALSE
            /\ UNCHANGED <<audio_detector, session, threshold, accVars, thrVars,
                           locVars, clsVars, lastFire>>
       ELSE UNCHANGED <<detVars, accVars, thrVars, locVars, clsVars, lastFire,
                        uiPc, uiRestart>>
    /\ UNCHANGED <<clockVars, envVars, unitVars, cfgVars, fileVars, sigQueue, emitted,
                   unlockedAccesses, recVars, retVars>>

\* QThread.wait(): the thread has finished, or was never started
ThreadDone == wpc \in {"unstarted", "finished"}

\* stop(), line 456: wait() returns once the thread has finished; _stop_audio
\* then drops the detector, and _on_audio_device_changed starts a new one.
StopReturns ==
    /\ uiPc = "stop_wait"
    /\ ThreadDone
    /\ uiPc' = "idle"
    /\ uiRestart' = FALSE
    /\ IF uiRestart
       THEN StartAudio(FALSE)
       ELSE /\ audio_detector' = FALSE
            /\ UNCHANGED <<session, running, threshold, accVars, thrVars, locVars,
                           clsVars, lastFire>>
    /\ UNCHANGED <<clockVars, envVars, unitVars, cfgVars, fileVars, sigQueue, emitted,
                   unlockedAccesses, is_armed, recVars, retVars>>

\* _on_audio_device_changed, lines 1399-1406
DeviceChanged ==
    /\ uiPc = "idle"
    /\ \E d \in Devices :
         /\ d # audio_device_index
         /\ audio_device_index' = d
    /\ unlockedAccesses' =
         IF audio_detector
         THEN unlockedAccesses \cup {<<"ui", "audio_device_index", "write">>}
         ELSE unlockedAccesses
    /\ IF is_armed /\ audio_detector
       THEN /\ session < MaxSessions
            /\ running' = FALSE
            /\ uiPc' = "stop_wait"
            /\ uiRestart' = TRUE
            /\ UNCHANGED <<audio_detector, session, threshold, accVars, thrVars,
                           locVars, clsVars, lastFire>>
       ELSE IF is_armed
       THEN /\ session < MaxSessions
            /\ StartAudio(FALSE)
            /\ UNCHANGED <<uiPc, uiRestart>>
       ELSE UNCHANGED <<detVars, accVars, thrVars, locVars, clsVars, lastFire,
                        uiPc, uiRestart>>
    /\ UNCHANGED <<clockVars, envVars, unitVars, audio_threshold, fileVars, sigQueue,
                   emitted, is_armed, recVars, retVars>>

\* _on_threshold_changed, lines 1938-1945, with set_threshold, lines 340-342
ThresholdChanged ==
    /\ uiPc = "idle"
    /\ \E v \in Thresholds :
         /\ v # audio_threshold
         /\ audio_threshold' = v
         /\ threshold' = IF audio_detector THEN v ELSE threshold
    /\ UNCHANGED <<clockVars, envVars, unitVars, audio_device_index, audio_detector, session,
                   running, accVars, thrVars, locVars, clsVars, fileVars, sigQueue,
                   histVars, uiVars, recVars, retVars>>

\* set_device_index, lines 344-346: the index is stored under the lock
SetDeviceIndex ==
    /\ audio_detector
    /\ \E d \in Devices :
         /\ d # audio_device_index
         /\ audio_device_index' = d
    /\ UNCHANGED <<clockVars, envVars, unitVars, audio_threshold, detVars, accVars, thrVars,
                   locVars, clsVars, fileVars, sigQueue, histVars, uiVars, recVars,
                   retVars>>

\* ------------------------------------------------------- triggers and recording
\* _start_recording, lines 1470-1476, started by trigger k
StartRecording(k) ==
    IF is_recording
    THEN UNCHANGED <<is_recording, recording_start_time, recTrigger>>
    ELSE /\ is_recording' = TRUE
         /\ recording_start_time' = now
         /\ recTrigger' = k

\* The test that lets a trigger start a recording while disarmed
MayStartDisarmed == ~is_recording

\* Lines 1459 and 1932: a trigger starts a recording
MayStart == is_armed /\ ~is_recording

\* _on_audio_trigger, lines 1453-1461: the slot of a queued trigger_detected
OnAudioTrigger ==
    /\ uiPc = "idle"
    /\ sigQueue # <<>>
    /\ sigQueue' = Tail(sigQueue)
    /\ last_trigger_timestamp' = Timestamp(now)
    /\ lastTrigger' = Head(sigQueue).trigger
    /\ IF MayStart
       THEN StartRecording(Head(sigQueue).trigger)
       ELSE UNCHANGED <<is_recording, recording_start_time, recTrigger>>
    /\ UNCHANGED <<clockVars, envVars, unitVars, cfgVars, detVars, accVars, thrVars, locVars,
                   clsVars, fileVars, histVars, uiVars, clips, retVars>>

\* _manual_trigger, lines 1931-1934
ManualTrigger ==
    /\ uiPc = "idle"
    /\ MayStart
    /\ last_trigger_timestamp' = Timestamp(now)
    /\ lastTrigger' = Manual
    /\ StartRecording(Manual)
    /\ UNCHANGED <<clockVars, envVars, unitVars, cfgVars, detVars, accVars, thrVars, locVars,
                   clsVars, fileVars, sigQueue, histVars, uiVars, clips, retVars>>

\* if self.last_trigger_timestamp:
Truthy(ts) == ts # NoTime /\ ts # 0

\* _check_recording and _stop_recording, lines 1498-1520, with save_clip
\* (recording.py 99-151), which returns None for an empty frames mapping.
CheckRecording ==
    /\ uiPc = "idle"
    /\ is_recording
    /\ now - recording_start_time >= PostTrigger
    /\ is_recording' = FALSE
    /\ \E has_frames \in BOOLEAN :
         IF has_frames /\ Len(clips) < MaxClips
         THEN clips' = Append(clips,
                  [trigger_timestamp |-> IF Truthy(last_trigger_timestamp)
                                         THEN last_trigger_timestamp ELSE NoTime,
                   marked_not_shot |-> FALSE,
                   startedBy |-> recTrigger])
         ELSE UNCHANGED clips
    /\ UNCHANGED <<clockVars, envVars, unitVars, cfgVars, detVars, accVars, thrVars, locVars,
                   clsVars, fileVars, sigQueue, histVars, uiVars,
                   recording_start_time, last_trigger_timestamp, lastTrigger,
                   recTrigger, retVars>>

\* The relabel that moves the waveform to the other of its two names
RelabelSwapping(ts, written) ==
    LET s == SampleAt(ts)
    IN  IF ts \in DOMAIN store
        THEN PutSample(ts, [s EXCEPT !.shot_wav = s.not_shot_wav,
                                     !.not_shot_wav = s.shot_wav])
        ELSE store

\* The relabel that renames the waveform and leaves the metadata alone
RelabelRenamingOnly(ts, written) ==
    LET s == SampleAt(ts)
    IN  IF ts \in DOMAIN store /\ s.shot_wav
        THEN PutSample(ts, [s EXCEPT !.shot_wav = FALSE, !.not_shot_wav = TRUE])
        ELSE store

\* The relabel that writes a metadata record whether or not one exists
RelabelCreating(ts, written) ==
    PutSample(ts, [SampleAt(ts) EXCEPT !.meta = "ok", !.label = 0])

\* RecordingManager._relabel_audio_sample, recording.py 217-236: the store after
\* it.  The waveform is renamed if it is there; metadata that is there and
\* readable is rewritten with label 0, and a rewrite that fails after open()
\* truncated the file leaves it unreadable (the except of line 235 logs).
Relabel(ts, written) ==
    LET s == SampleAt(ts)
        renamed == IF s.shot_wav
                   THEN [s EXCEPT !.shot_wav = FALSE, !.not_shot_wav = TRUE]
                   ELSE s
        relabeled == IF s.meta # "ok" THEN renamed
                     ELSE IF written THEN [renamed EXCEPT !.label = 0]
                     ELSE [renamed EXCEPT !.meta = "corrupt"]
    IN  IF ts \in DOMAIN store THEN PutSample(ts, relabeled) ELSE store

\* _retrain_classifier, lines 2052-2061: retrain() runs on the detector's
\* classifier, or on a classifier constructed for the call.
BeginRetrain ==
    /\ uiPc' = "retrain"
    /\ IF audio_detector
       THEN UNCHANGED <<mode, model, scaler>>
       ELSE /\ mode' = LoadedMode
            /\ model' = LoadedModel
            /\ scaler' = LoadedScaler

\* _on_mark_not_shot_requested, lines 2008-2024, with mark_as_not_shot
\* (recording.py 179-215) on a visible clip; the retrain follows.
MarkNotShot ==
    /\ uiPc = "idle"
    /\ \E i \in 1..Len(clips) :
         /\ ~clips[i].marked_not_shot
         /\ \E written \in BOOLEAN :
              store' = IF Truthy(clips[i].trigger_timestamp)
                       THEN Relabel(clips[i].trigger_timestamp, written) ELSE store
         /\ clips' = [clips EXCEPT ![i].marked_not_shot = TRUE]
    /\ BeginRetrain
    /\ UNCHANGED <<clockVars, envVars, unitVars, cfgVars, detVars, accVars, thrVars, locVars,
                   scalerRead, modelFile, sigQueue, histVars, uiRestart, is_armed,
                   is_recording, recording_start_time, last_trigger_timestamp,
                   lastTrigger, recTrigger, retVars>>

\* The "Retrain Classifier" button, line 1110
RetrainClicked ==
    /\ uiPc = "idle"
    /\ BeginRetrain
    /\ UNCHANGED <<clockVars, envVars, unitVars, cfgVars, detVars, accVars, thrVars, locVars,
                   scalerRead, fileVars, sigQueue, histVars, uiRestart, is_armed,
                   recVars, retVars>>

\* ------------------------------------------------------ AudioClassifier.retrain
\* Lines 256-266: the label of a metadata record, -2 when the record is skipped
SkipLabel == NoLabel - 1
RowLabel(s) ==
    IF s.label # NoLabel THEN s.label
    ELSE IF s.shot_wav THEN 1
    ELSE IF s.not_shot_wav THEN 0
    ELSE SkipLabel

\* The scan taking every metadata file for a readable record
RowsOfAnyRecord == {ts \in DOMAIN store :
                       /\ store[ts].meta # "none"
                       /\ RowLabel(store[ts]) # SkipLabel
                       /\ store[ts].features # 0}

\* Lines 251-273: the records that contribute a row to X_list
Rows == {ts \in DOMAIN store :
            /\ store[ts].meta = "ok"
            /\ RowLabel(store[ts]) # SkipLabel
            /\ store[ts].features # 0}
RowsLabeled(l) == {ts \in Rows : RowLabel(store[ts]) = l}

\* training_sample_count, lines 304-309: the metadata files of the store
TrainingSampleCount == Cardinality({ts \in DOMAIN store : store[ts].meta # "none"})

\* The sample minimum taken one lower
TooFewBelowNine(n) == n < MIN_SAMPLES - 1

\* Line 275: len(X_list) < 10
TooFew(n) == n < MIN_SAMPLES

\* Line 283: len(set(y)) < 2
OneClass == Cardinality({RowLabel(store[ts]) : ts \in Rows}) < 2

\* Lines 241-291: the scan and the three early returns, else the fit
R_Scan ==
    /\ uiPc = "retrain"
    /\ IF ~SKLEARN_AVAILABLE \/ TooFew(Cardinality(Rows)) \/ OneClass
       THEN /\ retrainResult' = "false"
            /\ uiPc' = "idle"
            /\ UNCHANGED fit
       ELSE /\ fit' = [n0 |-> Cardinality(RowsLabeled(0)),
                       n1 |-> Cardinality(RowsLabeled(1))]
            /\ uiPc' = "retrain_save"
            /\ retrainResult' = "none"
    /\ UNCHANGED <<clockVars, envVars, unitVars, cfgVars, detVars, accVars, thrVars, locVars,
                   clsVars, fileVars, sigQueue, histVars, uiRestart, is_armed,
                   recVars>>

\* Lines 293-296: the bundle is pickled to CLASSIFIER_PATH.  open() or
\* pickle.dump() may raise; nothing in retrain() catches it.
R_Save ==
    /\ uiPc = "retrain_save"
    /\ \E outcome \in {"written", "open_failed", "dump_failed"} :
         /\ modelFile' = CASE outcome = "written" -> Bundle(fit)
                           [] outcome = "dump_failed" -> TornBundle
                           [] OTHER -> modelFile
         /\ uiPc' = IF outcome = "written" THEN "retrain_model" ELSE "idle"
         /\ retrainResult' = IF outcome = "written" THEN retrainResult ELSE "raised"
    /\ UNCHANGED <<clockVars, envVars, unitVars, cfgVars, detVars, accVars, thrVars, locVars,
                   clsVars, store, sigQueue, histVars, uiRestart, is_armed,
                   recVars, fit>>

\* Line 298: self.model = model
R_SetModel ==
    /\ uiPc = "retrain_model"
    /\ model' = fit
    /\ uiPc' = "retrain_scaler"
    /\ UNCHANGED <<clockVars, envVars, unitVars, cfgVars, detVars, accVars, thrVars, locVars,
                   mode, scaler, scalerRead, fileVars, sigQueue, histVars, uiRestart,
                   is_armed, recVars, retVars>>

\* Line 299: self.scaler = scaler
R_SetScaler ==
    /\ uiPc = "retrain_scaler"
    /\ scaler' = fit
    /\ uiPc' = "retrain_mode"
    /\ UNCHANGED <<clockVars, envVars, unitVars, cfgVars, detVars, accVars, thrVars, locVars,
                   mode, model, scalerRead, fileVars, sigQueue, histVars, uiRestart,
                   is_armed, recVars, retVars>>

\* Lines 300-302: self.mode = "learned"; return True
R_SetMode ==
    /\ uiPc = "retrain_mode"
    /\ mode' = "learned"
    /\ retrainResult' = "true"
    /\ uiPc' = "idle"
    /\ UNCHANGED <<clockVars, envVars, unitVars, cfgVars, detVars, accVars, thrVars, locVars,
                   model, scaler, scalerRead, fileVars, sigQueue, histVars, uiRestart,
                   is_armed, recVars, fit>>

\* ------------------------------------------------ the training directory, by name
\* A file name is a sequence of pieces; "*" in a pattern stands for any
\* sequence of pieces, the empty one included.
MetaPattern == <<"trigger", "_", "*", "_", "meta.json">>

\* the names a directory may hold
FileNames ==
    {<<"trigger", "_", i, "_", k>> : i \in {"1", "2"}, k \in {"meta.json", "shot.wav"}}
    \cup {<<"trigger", "_", "_", "meta.json">>,
          <<"trigger", "_", "meta.json">>,
          <<"trigger", "_", "1", "_", "meta.json", ".bak">>,
          <<"x", "trigger", "_", "1", "_", "meta.json">>,
          <<"other_file.json">>}

\* The match that looks at the first piece only
GlobPrefix(pat, name) == name # <<>> /\ Head(name) = Head(pat)

\* Path.glob: the name matches the pattern
RECURSIVE GlobMatch(_, _)
GlobMatch(pat, name) ==
    IF pat = <<>> THEN name = <<>>
    ELSE IF Head(pat) = "*"
    THEN GlobMatch(Tail(pat), name) \/ (name # <<>> /\ GlobMatch(pat, Tail(name)))
    ELSE name # <<>> /\ Head(name) = Head(pat) /\ GlobMatch(Tail(pat), Tail(name))

\* training_sample_count, lines 304-309, over the listing
CountIn(exists, names) ==
    IF ~exists THEN 0
    ELSE Cardinality({n \in names : GlobMatch(MetaPattern, n)})

\* The property is read
D_Count ==
    /\ count_result' = CountIn(dir_exists, dir_names)
    /\ counted' = TRUE
    /\ UNCHANGED <<appVars, camVars, pdVars, relVars, rmVars, fbVars, heurVars, extVars, dir_exists, dir_names>>

\* _save_trigger_snippet, lines 424-449, as the names it creates: the
\* directory, then the waveform, then the metadata, unless it fails before
D_SaveSnippet ==
    /\ \E i \in {"1", "2"}, outcome \in {"saved", "wav_failed", "meta_failed"} :
         LET wav == <<"trigger", "_", i, "_", "shot.wav">>
             meta == <<"trigger", "_", i, "_", "meta.json">>
         IN  dir_names' = CASE outcome = "saved" -> dir_names \cup {wav, meta}
                            [] outcome = "meta_failed" -> dir_names \cup {wav}
                            [] OTHER -> dir_names
    /\ dir_exists' = TRUE
    /\ counted' = FALSE
    /\ UNCHANGED <<appVars, camVars, pdVars, relVars, rmVars, fbVars, heurVars, extVars, count_result>>

DirIdle == dir_exists = FALSE /\ dir_names = {} /\ count_result = 0 /\ counted = FALSE

\* ------------------------------------------------- _classify_heuristic on its own
\* values of each feature on either side of every bound of the rules
HeuristicInputs ==
    [crest_factor : {0, 3, 4, 5, 6, 8},
     impact_ratio : {0, 8, 9, 15, 16, 30, 35},
     rise_time : {0, 10, 29, 30, 79, 80, 149, 150},
     zcr : {0, 5, 15, 34, 35},
     spectral_centroid : {0, 800, 801, 1500, 3000, 5000, 6999, 7000},
     energy_0_500 : {0, 10, 70, 71}]

H_Classify ==
    /\ ~h_called
    /\ h_result' = ClassifyHeuristic(h_features)
    /\ h_called' = TRUE
    /\ UNCHANGED <<appVars, camVars, pdVars, relVars, rmVars, fbVars, dirVars, extVars, h_features>>

HeurIdle ==
    /\ h_features = [crest_factor |-> 0, impact_ratio |-> 0, rise_time |-> 0,
                      zcr |-> 0, spectral_centroid |-> 0, energy_0_500 |-> 0]
    /\ h_result = 0 /\ h_called = FALSE

\* ------------------------------------------------------------ extract on its own
\* Samples are whole numbers of steps of the amplitude scale.
SampleValues == {-2, 0, 1, 2}
\* Values the six features computed from the FFT can take (the transform
\* itself is not modelled)
SpectralValues == {0, 1}

Abs(x) == IF x < 0 THEN -x ELSE x
Sign(x) == IF x < 0 THEN -1 ELSE IF x > 0 THEN 1 ELSE 0
Isqrt(n) == CHOOSE r \in 0..n : r * r <= n /\ (r + 1) * (r + 1) > n
RECURSIVE SumSq(_)
SumSq(xs) == IF xs = <<>> THEN 0 ELSE Head(xs) * Head(xs) + SumSq(Tail(xs))
MaxAbs(xs) == CHOOSE m \in {Abs(xs[i]) : i \in DOMAIN xs} :
                 \A i \in DOMAIN xs : Abs(xs[i]) <= m
\* np.argmax of a boolean array: the first index (from 0) where it holds
FirstAt(xs, bound) ==
    CHOOSE i \in DOMAIN xs :
        10 * Abs(xs[i]) >= bound /\ \A j \in 1..(i - 1) : 10 * Abs(xs[j]) < bound

\* The features of an empty input, with two of the keys only
EmptyFeaturesShort == [k \in {"rms", "peak"} |-> 0]

\* _empty_features, lines 129-134
EmptyFeatures ==
    [k \in {"rms", "peak", "crest_factor", "zcr", "spectral_centroid",
            "spectral_rolloff", "energy_0_500", "energy_500_2k", "energy_2k_6k",
            "energy_6k_plus", "impact_ratio", "rise_time"} |-> 0]

\* extract, lines 51-127.  sp is the value of the FFT features; an all-zero
\* input has no energy and gives 0 for each of them.
Extract(xs, sp) ==
    IF Len(xs) = 0 THEN EmptyFeatures
    ELSE LET n == Len(xs)
             rms == Isqrt(SumSq(xs) \div n)
             peak == MaxAbs(xs)
             changes == Cardinality({i \in 1..(n - 1) : Sign(xs[i + 1]) # Sign(xs[i])})
             silent == \A i \in DOMAIN xs : xs[i] = 0
             f == IF silent THEN 0 ELSE sp
             idx_10 == FirstAt(xs, peak) - 1
             idx_90 == FirstAt(xs, 9 * peak) - 1
         IN  [rms |-> rms, peak |-> peak,
              crest_factor |-> IF rms > 0 THEN peak \div rms ELSE 0,
              zcr |-> (100 * changes) \div n,
              spectral_centroid |-> f, spectral_rolloff |-> f,
              energy_0_500 |-> f, energy_500_2k |-> f, energy_2k_6k |-> f,
              energy_6k_plus |-> f, impact_ratio |-> f,
              rise_time |-> Max2(0, idx_90 - idx_10)]

X_Extract ==
    /\ ~x_called
    /\ \E sp \in SpectralValues : x_result' = Extract(x_samples, sp)
    /\ x_called' = TRUE
    /\ UNCHANGED <<appVars, camVars, pdVars, relVars, rmVars, fbVars, dirVars, heurVars, x_samples>>

ExtIdle == x_samples = <<>> /\ x_result = EmptyFeatures /\ x_called = FALSE

\* ------------------------------------------------------------------ FrameBuffer
\* duration in tenths of a second, fps in frames per second
Durations == {0, 5, 10, 15}
FrameRates == {1, 2}
\* pixel contents of a frame
Frames == {1, 2}

\* Line 29: int(duration * fps)
MaxFramesOf(duration, fps) == (duration * fps) \div 10

\* A bounded queue that refuses the new item when it is full
DequeKeepOldest(buf, maxlen, item) ==
    IF Len(buf) >= maxlen THEN buf ELSE Append(buf, item)

\* deque(maxlen).append: the oldest item leaves a full deque
DequeAppend(buf, maxlen, item) ==
    IF maxlen = 0 THEN <<>>
    ELSE IF Len(buf) >= maxlen THEN Append(Tail(buf), item)
    ELSE Append(buf, item)

\* add_frame, lines 33-35; the timestamp is the number of the frame
FB_AddFrame ==
    /\ Len(fb_added) < MaxAdds
    /\ \E frame \in Frames :
         LET item == <<frame, Len(fb_added) + 1>> IN
         /\ buffer' = DequeAppend(buffer, max_frames, item)
         /\ fb_added' = Append(fb_added, item)
    /\ fb_fresh' = FALSE
    /\ UNCHANGED <<appVars, camVars, pdVars, relVars, rmVars, dirVars, heurVars, extVars, max_frames, fb_returned>>

\* get_frames, lines 37-39
FB_GetFrames ==
    /\ fb_returned' = buffer
    /\ fb_fresh' = TRUE
    /\ UNCHANGED <<appVars, camVars, pdVars, relVars, rmVars, dirVars, heurVars, extVars, max_frames, buffer, fb_added>>

\* clear, lines 41-43
FB_Clear ==
    /\ buffer' = <<>>
    /\ fb_added' = <<>>
    /\ fb_fresh' = FALSE
    /\ UNCHANGED <<appVars, camVars, pdVars, relVars, rmVars, dirVars, heurVars, extVars, max_frames, fb_returned>>

FbIdle ==
    /\ max_frames = 0 /\ buffer = <<>> /\ fb_added = <<>>
    /\ fb_returned = <<>> /\ fb_fresh = FALSE

\* -------------------------------------------------------------- RecordingManager
\* File names of the session folder are sequences of pieces, as above.
\* The number pieces that occur, in str order
NumberOrder == <<"0001", "0002", "0003", "0004", "1", "abc">>
\* str(cam_id) of the cameras 0 and 1
CameraIds == {0, 1}
CamStr(cam_id) == IF cam_id = 0 THEN "0" ELSE "1"

\* f"{shot_name}.mp4", f"{shot_name}_cam{cam_id}.mp4" and f"{shot_name}.jpg"
\* after "shot_"
PrimaryName(n) == <<"shot", "_", n, ".mp4">>
SecondaryName(n, c) == <<"shot", "_", n, "_", "cam", c, ".mp4">>
ThumbName(n) == <<"shot", "_", n, ".jpg">>
\* Path.with_suffix
WithSuffix(name, suffix) == Append(SubSeq(name, 1, Len(name) - 1), suffix)
\* no file: None, or the key is not there
NoFile == <<>>
\* glob("shot_*.mp4")
ShotPattern == <<"shot", "_", "*", ".mp4">>

\* f"{n:04d}" for the numbers save_clip formats
Format4(n) == NumberOrder[n]
\* int(piece): the number, or NotANumber for the ValueError
NotANumber == 0 - 1
ParseInt(piece) ==
    IF piece = "1" THEN 1
    ELSE IF \E n \in 1..4 : NumberOrder[n] = piece
    THEN CHOOSE n \in 1..4 : NumberOrder[n] = piece
    ELSE NotANumber

\* The video names in the order sorted() gives them: "." sorts before "_"
SortedVideoNames ==
    [i \in 1..(3 * Len(NumberOrder)) |->
        LET n == NumberOrder[((i - 1) \div 3) + 1]
            k == (i - 1) % 3
        IN  IF k = 0 THEN PrimaryName(n)
            ELSE SecondaryName(n, IF k = 1 THEN "0" ELSE "1")]

\* sorted(self.session_folder.glob("shot_*.mp4")), lines 63 and 84
GlobShots(folder) == {name \in folder : GlobMatch(ShotPattern, name)}
SortedShots(folder) == SelectSeq(SortedVideoNames, LAMBDA name : name \in GlobShots(folder))

\* _get_next_shot_number, lines 62-73: the piece after "shot_" is the number
NextShotNumber(folder) ==
    LET numbers == {ParseInt(name[3]) : name \in GlobShots(folder)} \ {NotANumber}
    IN  IF numbers = {} THEN 1
        ELSE (CHOOSE m \in numbers : \A k \in numbers : k <= m) + 1

\* An entry of clips: the keys the manager reads.  has_camera_files is
\* '"camera_files" in clip'; marked_not_shot FALSE and trigger_timestamp
\* NoTime stand for keys that are not there.
ClipEntry(file, thumbnail, cameras, has_files, files, ts) ==
    [file |-> file, thumbnail |-> thumbnail, cameras |-> cameras,
     has_camera_files |-> has_files, camera_files |-> files,
     marked_not_shot |-> FALSE, trigger_timestamp |-> ts]
NoCameraFiles == [c \in {} |-> NoFile]

\* clips.json: not there, there and unreadable, or a list of entries
NoClipsFile == [exists |-> FALSE, readable |-> FALSE, clips |-> <<>>]
SavedClips(list) == [exists |-> TRUE, readable |-> TRUE, clips |-> list]

\* Lines 77-82: the list json.load returns, [] when there is none
LoadedClipsOf(json) == IF json.exists /\ json.readable THEN json.clips ELSE <<>>

\* Lines 84-85: the video files that no loaded entry names as its "file"
Orphans(loaded, folder) ==
    SelectSeq(SortedShots(folder),
              LAMBDA v : \A i \in 1..Len(loaded) : loaded[i].file # v)

\* _load_existing_clips, lines 75-92
LoadExistingClips(json, folder) ==
    LET loaded == LoadedClipsOf(json)
        orphans == Orphans(loaded, folder)
    IN  loaded \o [i \in 1..Len(orphans) |->
                     LET thumb_file == WithSuffix(orphans[i], ".jpg")
                     IN  ClipEntry(orphans[i],
                                   IF thumb_file \in folder THEN thumb_file ELSE NoFile,
                                   1, FALSE, NoCameraFiles, NoTime)]

\* The frames mappings save_clip is called with: a frame count per camera
FrameMappings == UNION {[cams -> {0, 2}] : cams \in SUBSET CameraIds}

Called(op, index, frames, primary, ok, value) ==
    [op |-> op, index |-> index, frames |-> frames, primary_camera |-> primary,
     returned |-> ok, value |-> value]
NoCall == Called("none", 0, NoCameraFiles, 0, FALSE, <<>>)

\* __init__, lines 53-60
Construct ==
    /\ shot_count' = NextShotNumber(session_folder)
    /\ rm_clips' = LoadExistingClips(clips_json, session_folder)
    /\ rm_constructed' = TRUE
    /\ rm_last' = Called("__init__", 0, NoCameraFiles, 0, FALSE, <<>>)
    /\ UNCHANGED <<appVars, camVars, pdVars, relVars, dirVars, heurVars, extVars, fbVars, session_folder, clips_json>>

\* __init__, lines 53-60, over the folder as an earlier run left it
RM_Construct ==
    /\ ~rm_constructed
    /\ Construct

\* The application is started again on the same session folder
RM_Reopen ==
    /\ rm_constructed
    /\ Construct


\* The file a camera is written to, lines 117-120
CameraFile(shot_name, cam_id, primary_camera) ==
    IF cam_id = primary_camera THEN PrimaryName(shot_name)
    ELSE SecondaryName(shot_name, CamStr(cam_id))

\* Lines 113-115: the cameras that are written
WrittenCameras(frames_by_camera) ==
    {cam_id \in DOMAIN frames_by_camera : frames_by_camera[cam_id] > 0}

\* save_clip, lines 99-151, with _save_clips_metadata (94-97); value is the
\* clip_info returned, <<>> for None
RM_SaveClip ==
    /\ rm_constructed
    /\ shot_count <= MaxShotNumber
    /\ Len(rm_clips) < MaxRmClips
    /\ \E frames_by_camera \in FrameMappings, primary_camera \in CameraIds :
         IF DOMAIN frames_by_camera = {}
         THEN /\ rm_last' = Called("save_clip", 0, frames_by_camera, primary_camera,
                                   FALSE, <<>>)
              /\ UNCHANGED <<session_folder, clips_json, rm_clips, shot_count>>
         ELSE LET shot_name == Format4(shot_count)
                  written == WrittenCameras(frames_by_camera)
                  has_thumb == primary_camera \in written
                  clip_info ==
                      ClipEntry(PrimaryName(shot_name),
                                IF has_thumb THEN ThumbName(shot_name) ELSE NoFile,
                                Cardinality(DOMAIN frames_by_camera), TRUE,
                                [c \in written |-> CameraFile(shot_name, c, primary_camera)],
                                NoTime)
              IN  /\ session_folder' =
                         session_folder
                         \cup {CameraFile(shot_name, c, primary_camera) : c \in written}
                         \cup (IF has_thumb THEN {ThumbName(shot_name)} ELSE {})
                  /\ rm_clips' = Append(rm_clips, clip_info)
                  /\ clips_json' = SavedClips(rm_clips')
                  /\ shot_count' = shot_count + 1
                  /\ rm_last' = Called("save_clip", 0, frames_by_camera, primary_camera,
                                       TRUE, <<clip_info>>)
    /\ UNCHANGED <<appVars, camVars, pdVars, relVars, dirVars, heurVars, extVars, fbVars, rm_constructed>>

\* Line 184: 0 <= index < len(self.clips)
ValidIndex(index, list) == 0 <= index /\ index < Len(list)

\* The unlinking that leaves the thumbnail
UnlinkedVideoOnly(clip) ==
    IF clip.has_camera_files
    THEN {clip.camera_files[c] : c \in DOMAIN clip.camera_files}
    ELSE {clip.file}

\* Lines 190-204: the files mark_as_not_shot unlinks for a clip
UnlinkedFor(clip) ==
    (IF clip.has_camera_files
     THEN {clip.camera_files[c] : c \in DOMAIN clip.camera_files}
     ELSE {clip.file})
    \cup (IF clip.thumbnail # NoFile THEN {clip.thumbnail} ELSE {})

\* mark_as_not_shot, lines 179-215, with _relabel_audio_sample (217-236) and
\* _save_clips_metadata (94-97); index counts from 0
RM_MarkAsNotShot ==
    /\ rm_constructed
    /\ \E index \in (0 - 1)..(Len(rm_clips) + 1) :
         IF ~ValidIndex(index, rm_clips)
         THEN /\ rm_last' = Called("mark_as_not_shot", index, NoCameraFiles, 0, FALSE, <<>>)
              /\ UNCHANGED <<session_folder, clips_json, rm_clips, store>>
         ELSE LET clip == rm_clips[index + 1] IN
              /\ session_folder' = session_folder \ UnlinkedFor(clip)
              /\ \E written \in BOOLEAN :
                   store' = IF Truthy(clip.trigger_timestamp)
                            THEN Relabel(clip.trigger_timestamp, written) ELSE store
              /\ rm_clips' = [rm_clips EXCEPT ![index + 1].marked_not_shot = TRUE]
              /\ clips_json' = SavedClips(rm_clips')
              /\ rm_last' = Called("mark_as_not_shot", index, NoCameraFiles, 0, TRUE, <<>>)
    /\ UNCHANGED <<clockVars, envVars, cfgVars, detVars, accVars, thrVars, locVars,
                   clsVars, modelFile, sigQueue, histVars, uiVars, recVars, retVars,
                   camVars, pdVars, relVars, dirVars, heurVars, extVars, fbVars, rm_constructed, shot_count>>

\* The pop that takes the last entry
PopLast(list, index) == SubSeq(list, 1, Len(list) - 1)

\* list.pop(index), line 173; index counts from 0
Pop(list, index) == SubSeq(list, 1, index) \o SubSeq(list, index + 2, Len(list))

\* delete_clip, lines 153-177, with _save_clips_metadata (94-97)
RM_DeleteClip ==
    /\ rm_constructed
    /\ \E index \in (0 - 1)..(Len(rm_clips) + 1) :
         IF ~ValidIndex(index, rm_clips)
         THEN /\ rm_last' = Called("delete_clip", index, NoCameraFiles, 0, FALSE, <<>>)
              /\ UNCHANGED <<session_folder, clips_json, rm_clips>>
         ELSE /\ session_folder' = session_folder \ UnlinkedFor(rm_clips[index + 1])
              /\ rm_clips' = Pop(rm_clips, index)
              /\ clips_json' = SavedClips(rm_clips')
              /\ rm_last' = Called("delete_clip", index, NoCameraFiles, 0, TRUE, <<>>)
    /\ UNCHANGED <<appVars, camVars, pdVars, relVars, dirVars, heurVars, extVars, fbVars, rm_constructed, shot_count>>

\* Line 240
VisibleClips(list) == SelectSeq(list, LAMBDA c : ~c.marked_not_shot)

\* get_visible_clips, lines 238-240
RM_GetVisibleClips ==
    /\ rm_constructed
    /\ rm_last' = Called("get_visible_clips", 0, NoCameraFiles, 0, TRUE,
                         VisibleClips(rm_clips))
    /\ UNCHANGED <<appVars, camVars, pdVars, relVars, dirVars, heurVars, extVars, fbVars, session_folder,
                   clips_json, rm_constructed, rm_clips, shot_count>>

RmIdle ==
    /\ session_folder = {} /\ clips_json = NoClipsFile
    /\ rm_constructed = FALSE /\ rm_clips = <<>> /\ shot_count = 1
    /\ rm_last = NoCall

\* ------------------------------------------------------ _relabel_audio_sample
\* What the store holds under one timestamp: one waveform at most, under
\* either name, and metadata that is missing, readable or unreadable
SampleShapes ==
    {[NoSample EXCEPT !.shot_wav = w = "shot", !.not_shot_wav = w = "not_shot",
                      !.meta = m, !.label = l] :
        w \in {"none", "shot", "not_shot"}, m \in {"none", "ok", "corrupt"},
        l \in {0, 1, NoLabel}}

\* _relabel_audio_sample called once more with the same timestamp
Rel_Apply ==
    /\ relabel_calls < MaxRelabels
    /\ \E written \in BOOLEAN : store' = Relabel(relabel_ts, written)
    /\ relabel_calls' = relabel_calls + 1
    /\ UNCHANGED <<clockVars, envVars, cfgVars, detVars, accVars, thrVars, locVars,
                   clsVars, modelFile, sigQueue, histVars, uiVars, recVars, retVars,
                   camVars, pdVars, dirVars, heurVars, extVars, fbVars, rmVars, relabel_ts>>

RelIdle == relabel_ts = NoTime /\ relabel_calls = 0

\* --------------------------------------------------------------- PersonDetector
\* The test that evaluates every call
EvaluatedAlways(t, last) == TRUE

\* Lines 334-336: the call is not rate-limited
Evaluated(t, last) == ~(t - last < CHECK_INTERVAL)

\* the last ABSENCE_THRESHOLD outcomes with one more
Remember(history, detected) ==
    LET h == Append(history, detected)
    IN  IF Len(h) <= ABSENCE_THRESHOLD THEN h
        ELSE SubSeq(h, Len(h) - ABSENCE_THRESHOLD + 1, Len(h))

\* check, lines 326-362; detected is what the HOG detector finds in the frame
PD_Check ==
    /\ consecutive_present < MaxConsecutive
    /\ consecutive_absent < MaxConsecutive
    /\ IF ~Evaluated(pd_now, last_check_time)
       THEN /\ pd_result' = "None"
            /\ UNCHANGED <<last_check_time, person_present, consecutive_present,
                           consecutive_absent, pd_detected>>
       ELSE \E detected \in BOOLEAN :
              LET present == IF detected THEN consecutive_present + 1 ELSE 0
                  absent == IF detected THEN 0 ELSE consecutive_absent + 1
                  new_state ==
                      IF ~person_present /\ present >= PRESENCE_THRESHOLD THEN TRUE
                      ELSE IF person_present /\ absent >= ABSENCE_THRESHOLD THEN FALSE
                      ELSE person_present
              IN  /\ last_check_time' = pd_now
                  /\ consecutive_present' = present
                  /\ consecutive_absent' = absent
                  /\ person_present' = new_state
                  /\ pd_result' = IF new_state = person_present THEN "None"
                                  ELSE IF new_state THEN "True" ELSE "False"
                  /\ pd_detected' = Remember(pd_detected, detected)
    /\ UNCHANGED <<appVars, camVars, dirVars, heurVars, extVars, fbVars, rmVars, relVars, pd_now>>

\* Time passes between two calls
PD_Tick ==
    /\ pd_now < MaxPdTime
    /\ \E d \in {2, 3} : pd_now' = pd_now + d
    /\ UNCHANGED <<appVars, camVars, dirVars, heurVars, extVars, fbVars, rmVars, relVars,
                   last_check_time, person_present, consecutive_present,
                   consecutive_absent, pd_result, pd_detected>>

\* __init__, lines 309-320
PdIdle ==
    /\ pd_now = CHECK_INTERVAL /\ last_check_time = 0
    /\ person_present = FALSE
    /\ consecutive_present = 0 /\ consecutive_absent = 0
    /\ pd_result = "None" /\ pd_detected = <<>>

\* ---------------------------------------------------------------- CameraCapture
\* The capture thread of a network camera (camera_id is a URL).
\* Line 247: backoff = min(backoff * 2, 30.0)
NextBackoff(b) == Min2(b * 2, MAX_BACKOFF)

\* run, lines 68-106: the first open and the first read
C_Start ==
    /\ cam_pc = "unstarted"
    /\ cam_running' = TRUE
    /\ \E opened \in BOOLEAN :
         IF opened
         THEN /\ cap_open' = TRUE
              /\ connection_state' = "connected"
              /\ \E ret \in BOOLEAN : frame_delivered' = ret
              /\ consecutive_failures' = 0
              /\ cam_pc' = "loop"
              /\ UNCHANGED <<backoff, rc_caller>>
         ELSE /\ cap_open' = FALSE
              /\ connection_state' = "connecting"
              /\ cam_pc' = "rc_test"
              /\ rc_caller' = "open"
              /\ backoff' = 1
              /\ UNCHANGED <<consecutive_failures, frame_delivered>>
    /\ UNCHANGED <<appVars, dirVars, heurVars, extVars, fbVars, rmVars, relVars, pdVars>>

\* The thread after _reconnect_loop returned: line 79 for the call of line
\* 78, lines 151-160 for the call of line 150
C_Return ==
    IF rc_caller = "open"
    THEN /\ cam_pc' = "done"
         /\ UNCHANGED <<connection_state, consecutive_failures, frame_delivered>>
    ELSE IF ~cam_running \/ ~cap_open'
    THEN /\ cam_pc' = "done"
         /\ UNCHANGED <<connection_state, consecutive_failures, frame_delivered>>
    ELSE /\ cam_pc' = "loop"
         /\ connection_state' = "connected"
         /\ consecutive_failures' = 0
         /\ frame_delivered' = FALSE

\* _reconnect_loop, lines 236-239: the loop test, the emit and the sleep
C_ReconnectTest ==
    /\ cam_pc = "rc_test"
    /\ IF cam_running
       THEN /\ connection_state' = "connecting"
            /\ cam_pc' = "rc_sleep"
            /\ UNCHANGED <<cap_open, consecutive_failures, frame_delivered>>
       ELSE /\ UNCHANGED cap_open
            /\ C_Return
    /\ UNCHANGED <<appVars, dirVars, heurVars, extVars, fbVars, rmVars, relVars, pdVars,
                   cam_running, backoff, rc_caller>>

\* _reconnect_loop, lines 240-247: after the sleep
C_ReconnectOpen ==
    /\ cam_pc = "rc_sleep"
    /\ IF ~cam_running
       THEN /\ UNCHANGED <<cap_open, backoff>>
            /\ C_Return
       ELSE \E opened \in BOOLEAN :
              /\ cap_open' = opened
              /\ IF opened
                 THEN /\ UNCHANGED backoff
                      /\ C_Return
                 ELSE /\ backoff' = NextBackoff(backoff)
                      /\ cam_pc' = "rc_test"
                      /\ UNCHANGED <<connection_state, consecutive_failures,
                                     frame_delivered>>
    /\ UNCHANGED <<appVars, dirVars, heurVars, extVars, fbVars, rmVars, relVars, pdVars,
                   cam_running, rc_caller>>

\* run, lines 119-150 and 180-183: one turn of the read loop
C_Read ==
    /\ cam_pc = "loop"
    /\ IF ~cam_running
       THEN /\ cam_pc' = "done"
            /\ cap_open' = FALSE
            /\ UNCHANGED <<connection_state, consecutive_failures, backoff, rc_caller,
                           frame_delivered>>
       ELSE \E ret \in BOOLEAN :
              IF ret
              THEN /\ consecutive_failures' = 0
                   /\ frame_delivered' = TRUE
                   /\ UNCHANGED <<cam_pc, cap_open, connection_state, backoff, rc_caller>>
              ELSE /\ consecutive_failures' = consecutive_failures + 1
                   /\ IF consecutive_failures' > MAX_FAILURES
                      THEN /\ connection_state' = "disconnected"
                           /\ cap_open' = FALSE
                           /\ cam_pc' = "rc_test"
                           /\ rc_caller' = "loop"
                           /\ backoff' = 1
                      ELSE UNCHANGED <<cam_pc, cap_open, connection_state, backoff,
                                       rc_caller>>
                   /\ UNCHANGED frame_delivered
    /\ UNCHANGED <<appVars, dirVars, heurVars, extVars, fbVars, rmVars, relVars, pdVars,
                   cam_running>>

\* stop, lines 290-294, called on the UI thread
C_Stop ==
    /\ cam_pc # "unstarted"
    /\ cam_running
    /\ cam_running' = FALSE
    /\ connection_state' = "disconnected"
    /\ UNCHANGED <<appVars, dirVars, heurVars, extVars, fbVars, rmVars, relVars, pdVars,
                   cam_pc, cap_open, consecutive_failures, backoff, rc_caller,
                   frame_delivered>>

\* __init__, lines 36-42
CamIdle ==
    /\ cam_running = FALSE /\ cam_pc = "unstarted" /\ cap_open = FALSE
    /\ connection_state = "none" /\ consecutive_failures = 0
    /\ backoff = 1 /\ rc_caller = "none" /\ frame_delivered = FALSE

UnitIdle ==
    DirIdle /\ HeurIdle /\ ExtIdle /\ FbIdle /\ RmIdle /\ RelIdle /\ PdIdle /\ CamIdle

\* ------------------------------------------------------------ specification
EmptyStore == [ts \in {} |-> NoSample]

InitApp ==
    /\ now = StartTime
    /\ audio_threshold = DEFAULT_THRESHOLD
    /\ audio_device_index = NoDevice
    /\ audio_detector = FALSE
    /\ session = 0
    /\ running = FALSE
    /\ threshold = DEFAULT_THRESHOLD
    /\ chunk_accumulator = <<>>
    /\ gapSince = FALSE
    /\ audio_ring = 0
    /\ wpc = "unstarted"
    /\ stream = "none"
    /\ terminated = FALSE
    /\ thresh = 0 /\ level = NoLevel /\ level_update = <<>> /\ features = 1 /\ confidence = 0
    /\ current_time = 0 /\ cooldown_time = 0
    /\ mode = "heuristic" /\ model = NoFit /\ scaler = NoFit /\ scalerRead = NoFit
    /\ sigQueue = <<>>
    /\ lastFire = NoTime /\ emitted = 0
    /\ unlockedAccesses = {}
    /\ uiPc = "idle" /\ uiRestart = FALSE /\ is_armed = FALSE
    /\ is_recording = FALSE /\ recording_start_time = 0
    /\ last_trigger_timestamp = NoTime
    /\ lastTrigger = Manual /\ recTrigger = Manual
    /\ fit = NoFit /\ retrainResult = "none"

InitCommon == InitApp /\ UnitIdle

\* The application starts with an empty training store; a model a previous
\* run persisted is loaded when scikit-learn is there to read it.
Init ==
    /\ InitCommon
    /\ AUDIO_AVAILABLE \in BOOLEAN
    /\ SKLEARN_AVAILABLE \in BOOLEAN
    /\ modelFile = OldBundle
    /\ store = EmptyStore
    /\ clips = <<>>

\* The application at rest, for the components exercised on their own
AppIdle ==
    /\ InitApp
    /\ AUDIO_AVAILABLE = TRUE /\ SKLEARN_AVAILABLE = TRUE
    /\ modelFile = NoBundle /\ store = EmptyStore /\ clips = <<>>

\* training_sample_count over any directory, with samples being saved
InitDir ==
    /\ AppIdle /\ CamIdle /\ PdIdle /\ RelIdle /\ RmIdle /\ FbIdle /\ HeurIdle /\ ExtIdle
    /\ dir_exists \in BOOLEAN
    /\ dir_names \in SUBSET FileNames
    /\ ~dir_exists => dir_names = {}
    /\ count_result = 0 /\ counted = FALSE

DirNext == D_Count \/ D_SaveSnippet

SpecDir == InitDir /\ [][DirNext]_vars

\* _classify_heuristic called on any feature vector
InitHeur ==
    /\ AppIdle /\ CamIdle /\ PdIdle /\ RelIdle /\ RmIdle /\ FbIdle /\ DirIdle /\ ExtIdle
    /\ h_features \in HeuristicInputs
    /\ h_result = 0 /\ h_called = FALSE

HeurNext == H_Classify

SpecHeur == InitHeur /\ [][HeurNext]_vars

\* extract called on any input of up to MaxSamples samples
InitExt ==
    /\ AppIdle /\ CamIdle /\ PdIdle /\ RelIdle /\ RmIdle /\ FbIdle /\ DirIdle /\ HeurIdle
    /\ x_samples \in UNION {[1..n -> SampleValues] : n \in 0..MaxSamples}
    /\ x_result = EmptyFeatures /\ x_called = FALSE

ExtNext == X_Extract

SpecExt == InitExt /\ [][ExtNext]_vars

\* A FrameBuffer of any capacity, filled, read and cleared
InitFb ==
    /\ AppIdle /\ CamIdle /\ PdIdle /\ RelIdle /\ RmIdle /\ DirIdle /\ HeurIdle /\ ExtIdle
    /\ \E duration \in Durations, fps \in FrameRates :
         max_frames = MaxFramesOf(duration, fps)
    /\ buffer = <<>> /\ fb_added = <<>>
    /\ fb_returned = <<>> /\ fb_fresh = FALSE

FbNext == FB_AddFrame \/ FB_GetFrames \/ FB_Clear

SpecFb == InitFb /\ [][FbNext]_vars

\* What an earlier run may have left in the session folder
InitialNames ==
    {PrimaryName("0001"), SecondaryName("0001", "1"), ThumbName("0001"),
     PrimaryName("0002"), PrimaryName("abc")}
InitialClipFiles ==
    {NoClipsFile,
     [exists |-> TRUE, readable |-> FALSE, clips |-> <<>>],
     SavedClips(<<ClipEntry(PrimaryName("0001"), ThumbName("0001"), 1, FALSE,
                            NoCameraFiles, Timestamp(StartTime))>>),
     SavedClips(<<ClipEntry(PrimaryName("0001"), ThumbName("0001"), 2, TRUE,
                            [c \in CameraIds |->
                               CameraFile("0001", c, 0)], NoTime)>>)}

\* A RecordingManager constructed over any such folder, saving and marking
\* clips, with the sample of the first clip in the training store or not
InitRm ==
    /\ InitApp /\ CamIdle /\ PdIdle /\ RelIdle /\ DirIdle /\ HeurIdle /\ ExtIdle /\ FbIdle
    /\ AUDIO_AVAILABLE = TRUE /\ SKLEARN_AVAILABLE = TRUE
    /\ modelFile = NoBundle /\ clips = <<>>
    /\ store \in {EmptyStore,
                  [ts \in {Timestamp(StartTime)} |->
                     [NoSample EXCEPT !.shot_wav = TRUE, !.meta = "ok", !.label = 1]]}
    /\ session_folder \in SUBSET InitialNames
    /\ clips_json \in InitialClipFiles
    /\ rm_constructed = FALSE /\ rm_clips = <<>> /\ shot_count = 1
    /\ rm_last = NoCall

RmNext == RM_Construct \/ RM_SaveClip \/ RM_MarkAsNotShot \/ RM_GetVisibleClips

\* One session folder over several runs of the application: clips are saved,
\* deleted and marked, and the folder is opened again by a new manager
InitSession ==
    /\ AppIdle /\ CamIdle /\ PdIdle /\ RelIdle /\ DirIdle /\ HeurIdle /\ ExtIdle /\ FbIdle
    /\ session_folder \in SUBSET {PrimaryName("0001"), ThumbName("0001"),
                                  SecondaryName("0001", "1")}
    /\ clips_json \in InitialClipFiles
    /\ rm_constructed = FALSE /\ rm_clips = <<>> /\ shot_count = 1
    /\ rm_last = NoCall

SessionNext ==
    \/ RM_Construct \/ RM_Reopen \/ RM_SaveClip \/ RM_DeleteClip \/ RM_MarkAsNotShot

SpecSession == InitSession /\ [][SessionNext]_vars

SpecRm == InitRm /\ [][RmNext]_vars

\* _relabel_audio_sample called repeatedly with one timestamp, over a store
\* that holds a sample under it, a sample under another one, or nothing
InitRel ==
    /\ InitApp /\ CamIdle /\ PdIdle /\ DirIdle /\ HeurIdle /\ ExtIdle /\ FbIdle /\ RmIdle
    /\ AUDIO_AVAILABLE = TRUE /\ SKLEARN_AVAILABLE = TRUE
    /\ modelFile = NoBundle /\ clips = <<>>
    /\ relabel_ts = Timestamp(StartTime)
    /\ relabel_calls = 0
    /\ store \in {EmptyStore}
                 \cup {[ts \in {k} |-> s] :
                         k \in {relabel_ts, relabel_ts + 1}, s \in SampleShapes}

RelNext == Rel_Apply

SpecRel == InitRel /\ [][RelNext]_vars

\* A new PersonDetector checked on frames as time passes
InitPd ==
    /\ AppIdle /\ CamIdle /\ DirIdle /\ HeurIdle /\ ExtIdle /\ FbIdle /\ RmIdle /\ RelIdle
    /\ PdIdle

PdNext == PD_Check \/ PD_Tick

SpecPd == InitPd /\ [][PdNext]_vars

\* The capture thread of a network camera, stopped at any time
InitCam ==
    /\ AppIdle /\ DirIdle /\ HeurIdle /\ ExtIdle /\ FbIdle /\ RmIdle /\ RelIdle /\ PdIdle
    /\ CamIdle

CamNext == C_Start \/ C_ReconnectTest \/ C_ReconnectOpen \/ C_Read \/ C_Stop

SpecCam == InitCam /\ [][CamNext]_vars

\* The detector thread, the clock and the handlers that start, stop and
\* configure the detector.
Next ==
    \/ TickFine \/ TickCoarse
    \/ W_Begin \/ W_LoopCheck \/ W_ReadError \/ W_Read \/ W_Classify
    \/ W_ClassifyScale \/ W_ClassifyPredict \/ W_Decide \/ W_Save
    \/ ToggleArmed \/ StopReturns \/ DeviceChanged \/ ThresholdChanged

Spec == Init /\ [][Next]_vars

\* The scheduler runs the worker thread, and wait() returns once the thread
\* has finished.  The clock and the threshold slider are left out.
Worker == W_Begin \/ W_LoopCheck \/ W_ReadError \/ W_Read \/ W_Classify
          \/ W_ClassifyScale \/ W_ClassifyPredict \/ W_Decide \/ W_Save

LiveNext ==
    \/ W_Begin \/ W_LoopCheck \/ W_ReadError \/ W_Read \/ W_Classify
    \/ W_ClassifyScale \/ W_ClassifyPredict \/ W_Decide \/ W_Save
    \/ ToggleArmed \/ StopReturns \/ DeviceChanged

LiveSpec == Init /\ [][LiveNext]_vars /\ WF_vars(Worker) /\ WF_vars(StopReturns)

\* The detector with its two setters called at any time: the thread,
\* arming and disarming, the threshold slider and set_device_index.
DetNext ==
    \/ W_Begin \/ W_LoopCheck \/ W_ReadError \/ W_Read \/ W_Classify
    \/ W_ClassifyScale \/ W_ClassifyPredict \/ W_Decide \/ W_Save
    \/ ToggleArmed \/ StopReturns \/ ThresholdChanged \/ SetDeviceIndex

SpecDet == Init /\ [][DetNext]_vars

\* The application with the recordings audio triggers start: the detector
\* thread, the clock, arming and disarming, the trigger slot, the end of a
\* recording and "Mark as Not a Shot".  The store starts empty and gains at most
\* MaxTriggers samples, so the retrain that follows a mark returns at its scan.
AppNext ==
    \/ TickFine \/ TickCoarse
    \/ W_Begin \/ W_LoopCheck \/ W_ReadError \/ W_Read \/ W_Classify
    \/ W_ClassifyScale \/ W_ClassifyPredict \/ W_Decide \/ W_Save
    \/ ToggleArmed \/ StopReturns
    \/ OnAudioTrigger \/ CheckRecording \/ MarkNotShot \/ R_Scan

SpecApp == Init /\ [][AppNext]_vars

\* The recording of clips, started by the detector's triggers and by the
\* manual trigger button
RecNext ==
    \/ TickFine \/ TickCoarse
    \/ W_Begin \/ W_LoopCheck \/ W_ReadError \/ W_Read \/ W_Classify
    \/ W_Decide \/ W_Save
    \/ ToggleArmed \/ StopReturns
    \/ OnAudioTrigger \/ ManualTrigger \/ CheckRecording

\* with pyaudio and without scikit-learn: the classifier is the heuristic one
InitRec == Init /\ AUDIO_AVAILABLE /\ ~SKLEARN_AVAILABLE

SpecRec == InitRec /\ [][RecNext]_vars

\* Samples that earlier runs left in the store: n1 records labeled 1, saved
\* before this run started, and one more record of kind k that is damaged or
\* carries no label.
PastKinds == {"absent", "no_meta", "corrupt", "no_features", "unlabeled_shot",
              "unlabeled_not_shot", "unlabeled_no_wav"}

PastSample(l) ==
    [shot_wav |-> (l = 1), not_shot_wav |-> (l = 0), meta |-> "ok", label |-> l,
     confidence |-> CONFIDENCE_MIN, features |-> 1, threshold |-> DEFAULT_THRESHOLD,
     trigger |-> Manual]

OddSample(k) ==
    CASE k = "no_meta" -> [PastSample(1) EXCEPT !.meta = "none"]
      [] k = "corrupt" -> [PastSample(1) EXCEPT !.meta = "corrupt"]
      [] k = "no_features" -> [PastSample(1) EXCEPT !.features = 0]
      [] k = "unlabeled_shot" -> [PastSample(1) EXCEPT !.label = NoLabel]
      [] k = "unlabeled_not_shot" -> [PastSample(0) EXCEPT !.label = NoLabel]
      [] OTHER -> [PastSample(1) EXCEPT !.label = NoLabel, !.shot_wav = FALSE]

PastKey(i) == Timestamp(StartTime) - i

PastStore(n1, k) ==
    LET n == n1 + (IF k = "absent" THEN 0 ELSE 1)
    IN  [ts \in {PastKey(i) : i \in 1..n} |->
            IF Timestamp(StartTime) - ts <= n1 THEN PastSample(1) ELSE OddSample(k)]

\* A store of earlier runs, a session folder whose one clip names the first
\* sample of the store, and a model file that is absent or complete.
InitCls ==
    /\ InitCommon
    /\ AUDIO_AVAILABLE = TRUE
    /\ SKLEARN_AVAILABLE \in BOOLEAN
    /\ modelFile \in {NoBundle, OldBundle}
    /\ \E n1 \in (MaxPastShots - 1)..MaxPastShots, k \in PastKinds :
         store = PastStore(n1, k)
    /\ clips = <<[trigger_timestamp |-> PastKey(1), marked_not_shot |-> FALSE,
                  startedBy |-> Manual]>>

\* The classifier under retraining: the detector thread classifies windows
\* while the UI thread marks the clip and retrains.
ClsNext ==
    \/ W_Begin \/ W_LoopCheck \/ W_ReadError \/ W_Read \/ W_Classify
    \/ W_ClassifyScale \/ W_ClassifyPredict \/ W_Decide \/ W_Save
    \/ ToggleArmed \/ StopReturns
    \/ MarkNotShot \/ RetrainClicked
    \/ R_Scan \/ R_Save \/ R_SetModel \/ R_SetScaler \/ R_SetMode

SpecCls == InitCls /\ [][ClsNext]_vars

\* The same program started over damaged files: a model file that is torn or
\* lacks a key, and a store with or without an unreadable metadata record.
InitCorrupt ==
    /\ InitCommon
    /\ AUDIO_AVAILABLE = TRUE
    /\ SKLEARN_AVAILABLE \in BOOLEAN
    /\ modelFile \in {TornBundle, IncompleteBundle}
    /\ \E n1 \in (MaxPastShots - 1)..MaxPastShots, k \in {"absent", "corrupt"} :
         store = PastStore(n1, k)
    /\ clips = <<[trigger_timestamp |-> PastKey(1), marked_not_shot |-> FALSE,
                  startedBy |-> Manual]>>

SpecCorrupt == InitCorrupt /\ [][ClsNext]_vars
\* A step of the worker that emits trigger_detected
Emits == Len(sigQueue') = Len(sigQueue) + 1

\* C1: the step that decides a completed, classified window emits a trigger
\* event iff confidence >= 0.45, the level of the window's last chunk is at
\* or above the threshold read for that chunk, and the time is past the
\* cooldown expiry; no other step of the program emits one.
C1_TriggerIffDecision ==
    [][IF wpc = "decide" /\ wpc' # "decide"
       THEN Emits <=> (confidence >= 45 /\ level >= thresh /\ now > cooldown_time)
       ELSE ~Emits]_vars

\* A window has just fired a trigger.
C1_Witness == wpc = "save" /\ confidence = 45 /\ level = thresh

\* C2: a trigger event is emitted only when the session has had no trigger
\* yet or its last one is more than 3 seconds back.
C2_TriggersApart ==
    [][Emits => (lastFire = NoTime \/ now - lastFire > 3 * UnitsPerSecond)]_vars

\* The second trigger of one session has fired.
C2_Witness ==
    /\ Len(sigQueue) = 2
    /\ sigQueue[1].trigger.session = sigQueue[2].trigger.session

\* C3: a clip that an audio trigger started carries, as its trigger_timestamp,
\* the identity of the sample the detector saved for that trigger; marking the
\* clip renames that sample's waveform to not-shot and sets its label to 0.
C3_ClipNamesItsSample ==
    /\ [](\A i \in 1..Len(clips) : \A ts \in DOMAIN store :
            (clips[i].startedBy # Manual /\ store[ts].trigger = clips[i].startedBy)
                => clips[i].trigger_timestamp = ts)
    /\ [][\A i \in 1..Len(clips) : \A ts \in DOMAIN store :
            (/\ ~clips[i].marked_not_shot /\ clips'[i].marked_not_shot
             /\ clips[i].startedBy # Manual
             /\ store[ts].trigger = clips[i].startedBy
             /\ store[ts].shot_wav /\ store[ts].meta = "ok")
                => /\ store'[ts].not_shot_wav /\ ~store'[ts].shot_wav
                   /\ store'[ts].label = 0]_vars

\* C4: a chunk whose level is below half the threshold empties the
\* accumulator, is not added to it, reaches neither extract() nor classify()
\* and emits no trigger.
C4_GateDiscards ==
    [][(wpc = "read" /\ level' # NoLevel /\ 2 * level' < threshold)
       => /\ chunk_accumulator' = <<>>
          /\ wpc' = "loop"
          /\ features' = features /\ confidence' = confidence
          /\ sigQueue' = sigQueue /\ store' = store]_vars

\* A quiet chunk has just been gated.
C4_Witness ==
    /\ wpc = "loop" /\ level # NoLevel /\ 2 * level < threshold
    /\ chunk_accumulator = <<>>

\* C5: every window is 4 chunks with no lost chunk between two of them, the
\* accumulator is empty once the window is formed and never holds more than
\* 4 chunks.
C5_WindowsContiguous ==
    [][/\ Len(chunk_accumulator') <= 4
       /\ (wpc = "read" /\ wpc' = "classify")
          => LET w == Append(chunk_accumulator, gapSince)
             IN  /\ Len(w) = 4
                 /\ \A i \in 2..Len(w) : ~w[i]
                 /\ chunk_accumulator' = <<>>]_vars

\* C6: stop() returns, and when it does the thread has finished with the
\* stream closed and the audio handle terminated.
C6_StopCompletes ==
    /\ (uiPc = "stop_wait") ~> (uiPc # "stop_wait")
    /\ [][(uiPc = "stop_wait" /\ uiPc' # "stop_wait")
          => (ThreadDone /\ stream # "open" /\ (AUDIO_AVAILABLE => terminated))]_vars

\* C7: a classify() call in learned mode scales and predicts with the scaler
\* and the model of one fit, and learned mode never holds with a missing
\* model or scaler.
C7_SwapAtomic ==
    /\ [][(wpc = "cls_model" /\ wpc' = "decide") => scalerRead = model]_vars
    /\ [](mode = "learned" => (model # NoFit /\ scaler # NoFit))

\* C8: no access to the threshold or the device index that crosses threads
\* is made without the detector's lock.
C8_AllAccessesLocked == unlockedAccesses = {}

\* Usable samples of the store: readable metadata with features, and a label
\* in the metadata or in the name of the waveform beside it.
Usable == {ts \in DOMAIN store :
              /\ store[ts].meta = "ok" /\ store[ts].features # 0
              /\ (store[ts].label # NoLabel \/ store[ts].shot_wav \/ store[ts].not_shot_wav)}
UsableLabel(ts) ==
    IF store[ts].label # NoLabel THEN store[ts].label
    ELSE IF store[ts].shot_wav THEN 1 ELSE 0
EnoughOfBoth ==
    /\ Cardinality(Usable) >= 10
    /\ \E a \in Usable : UsableLabel(a) = 0
    /\ \E b \in Usable : UsableLabel(b) = 1

\* The scan of retrain() ends in this step.
Scanned == uiPc = "retrain" /\ uiPc' # "retrain"

\* C9: with fewer than 10 usable samples, or with usable samples of one label
\* only, retrain() returns False and leaves mode, model, scaler and the model
\* file as they were.
C9_RetrainRefuses ==
    [][(Scanned /\ ~EnoughOfBoth)
       => /\ retrainResult' = "false" /\ uiPc' = "idle"
          /\ mode' = mode /\ model' = model /\ scaler' = scaler
          /\ modelFile' = modelFile]_vars

\* retrain() has refused a store of 10 or more usable samples of one label,
\* with scikit-learn there and a learned model in use.
C9_Witness ==
    /\ retrainResult = "false" /\ uiPc = "idle" /\ SKLEARN_AVAILABLE
    /\ Cardinality(Usable) >= 10 /\ ~EnoughOfBoth
    /\ mode = "learned" /\ modelFile = OldBundle

\* The bundle the fit of this call makes
FittedBundle ==
    [exists |-> TRUE, valid |-> TRUE, model |-> fit, scaler |-> fit,
     n_samples |-> fit.n0 + fit.n1]

C11_BundleAtomic == modelFile.exists => modelFile.valid

\* A classifier object is constructed in this step: by AudioDetector.__init__,
\* or by _retrain_classifier when there is no detector.
Constructs ==
    \/ session' # session
    \/ (uiPc = "idle" /\ uiPc' = "retrain" /\ ~audio_detector)

\* C12: a classifier constructed without a valid model file is in heuristic
\* mode; an object's mode goes from heuristic to learned only in the step
\* with which retrain() returns True, and never from learned to heuristic.
C12_ModeMachine ==
    [][/\ (Constructs /\ ~(modelFile.exists /\ modelFile.valid))
          => mode' = "heuristic"
       /\ (~Constructs /\ mode = "heuristic" /\ mode' = "learned")
          => (uiPc = "retrain_mode" /\ retrainResult' = "true")
       /\ (~Constructs /\ mode = "learned") => mode' = "learned"]_vars

\* retrain() on the heuristic classifier of a detector has fitted, persisted
\* and assigned the model and is at the statement that switches the mode.
C12_Witness ==
    /\ uiPc = "retrain_mode" /\ mode = "heuristic" /\ audio_detector
    /\ model = fit /\ scaler = fit

\* Clip i is marked as not a shot in this step.
Marks(i) == i \in 1..Len(clips) /\ ~clips[i].marked_not_shot /\ clips'[i].marked_not_shot

C14_RelabelNoMatch ==
    [][\A i \in 1..Len(clips) :
         LET ts == clips[i].trigger_timestamp IN
         (/\ Marks(i)
          /\ \/ ~Truthy(ts)
             \/ ts \notin DOMAIN store
             \/ (~store[ts].shot_wav /\ store[ts].meta = "none"))
         => (store' = store /\ uiPc' = "retrain")]_vars

\* A clip was marked whose timestamp names no sample, while the store holds
\* the sample of the trigger that started it.
C14_Witness ==
    \E i \in 1..Len(clips) :
        /\ clips[i].marked_not_shot
        /\ Truthy(clips[i].trigger_timestamp)
        /\ clips[i].trigger_timestamp \notin DOMAIN store
        /\ \E ts \in DOMAIN store : store[ts].trigger = clips[i].startedBy

\* The step is _save_trigger_snippet, and it wrote the metadata of its trigger.
SavesMeta ==
    /\ wpc = "save" /\ wpc' # "save"
    /\ Timestamp(now) \in DOMAIN store'
    /\ store'[Timestamp(now)].meta = "ok"
    /\ store'[Timestamp(now)].trigger = [session |-> session, time |-> current_time]

C16_SamplesKept ==
    [][/\ \A ts \in DOMAIN store :
            /\ ts \in DOMAIN store'
            /\ store[ts].meta # "none"
               => /\ store'[ts].meta = store[ts].meta
                  /\ store'[ts].confidence = store[ts].confidence
                  /\ store'[ts].features = store[ts].features
                  /\ store'[ts].threshold = store[ts].threshold
            /\ (store[ts].shot_wav \/ store[ts].not_shot_wav)
               => (store'[ts].shot_wav \/ store'[ts].not_shot_wav)
       /\ TrainingSampleCount' >= TrainingSampleCount]_vars

\* C17: when stop() returns (the flag is cleared and wait() finds the thread
\* finished) the chunk accumulator of the detector is empty, so that a later
\* start of the same detector cannot build a window from chunks read before
\* the stop.
C17_ResetOnStop ==
    (uiPc = "stop_wait" /\ ThreadDone) => (chunk_accumulator = <<>> /\ ~gapSince)

\* C18: every chunk that is read gets exactly one level update, of value
\* min(1.0, rms * 10) and so within [0, 1], whether the chunk is gated, falls
\* into the cooldown, or completes a window that is classified; a failed read
\* gets none.
C18_LevelPerChunk ==
    [][/\ (wpc = "read" /\ wpc' # "read")
          => IF level' # NoLevel
             THEN /\ \E rms \in RmsValues : level_update' = <<Min2(100, rms)>>
                  /\ level_update'[1] \in 0..100
                  /\ level_update'[1] = level'
             ELSE level_update' = <<>>
       /\ wpc' \in {"classify", "cls_scaler", "cls_model", "decide", "save"}
          => Len(level_update') = 1]_vars

C18_Witness ==
    /\ wpc = "loop" /\ Len(level_update) = 1
    /\ 2 * level_update[1] < threshold
    /\ now < cooldown_time

InLoop == {"loop", "read", "classify", "cls_scaler", "cls_model", "decide", "save"}

\* C20: an error while a chunk is read or processed leaves the worker in its
\* loop, at the next chunk; the worker leaves the loop only at the loop test
\* with the running flag cleared, and then the stream is closed.
C20_LoopSurvivesErrors ==
    [][/\ (wpc \in InLoop /\ wpc' \notin InLoop)
          => /\ wpc = "loop" /\ ~running
             /\ wpc' = "finished" /\ stream' = "closed" /\ terminated'
       /\ (wpc = "read" /\ wpc' # "read" /\ level' = NoLevel)
          => (wpc' = "loop" /\ stream' = "open")
       /\ (wpc = "cls_scaler" /\ wpc' # "cls_scaler" /\ scaler = NoFit)
          => (wpc' = "loop" /\ stream' = "open")
       /\ (wpc = "save" /\ wpc' # "save")
          => (wpc' = "loop" /\ stream' = "open")]_vars

C20_Witness ==
    /\ wpc = "read" /\ running /\ stream = "open"
    /\ gapSince /\ Len(chunk_accumulator) > 0

\* C21: a _save_trigger_snippet that fails (before the waveform, or between
\* waveform and metadata) takes back nothing of its trigger: the event stays
\* emitted, the cooldown expiry is set to the decision time plus 3 seconds,
\* and the worker is at the loop test with its stream open.
C21_SaveFailureSwallowed ==
    [][(wpc = "save" /\ wpc' # "save" /\ ~SavesMeta)
          => /\ wpc' = "loop" /\ stream' = "open"
             /\ cooldown_time' = current_time + COOLDOWN_SECONDS * UnitsPerSecond
             /\ sigQueue' = sigQueue /\ emitted' = emitted
             /\ lastFire' = current_time
             /\ \E i \in 1..Len(sigQueue') :
                    sigQueue'[i].trigger = [session |-> session, time |-> current_time]]_vars

C21_Witness ==
    /\ wpc = "loop" /\ running /\ stream = "open"
    /\ emitted = 1 /\ Len(sigQueue) = 1
    /\ sigQueue[1].trigger = [session |-> session, time |-> lastFire]
    /\ cooldown_time = lastFire + CooldownDuration
    /\ \A ts \in DOMAIN store : store[ts].meta = "none"

\* C22: a step of set_threshold or set_device_index leaves the chunk
\* accumulator, the cooldown expiry, the rolling buffer and the listening
\* state as they are; every chunk read afterwards is gated by the threshold
\* the detector then has, and a window that chunk completes is decided with
\* that threshold.
C22_SettersChangeOnlyTheirField ==
    [][/\ (session' = session /\ threshold' # threshold)
          => UNCHANGED <<chunk_accumulator, gapSince, audio_ring, cooldown_time,
                         running, wpc, stream, terminated, audio_device_index>>
       /\ (session' = session /\ audio_device_index' # audio_device_index)
          => UNCHANGED <<chunk_accumulator, gapSince, audio_ring, cooldown_time,
                         running, wpc, stream, terminated, threshold>>
       /\ (wpc = "read" /\ level' # NoLevel)
          => /\ (2 * level' < threshold) <=> (chunk_accumulator' = <<>> /\ wpc' = "loop")
             /\ wpc' = "classify" => thresh' = threshold
       /\ (wpc = "decide" /\ wpc' # "decide")
          => (Emits <=> (confidence >= 45 /\ level >= thresh /\ now > cooldown_time))]_vars

C22_Witness ==
    /\ running /\ wpc = "read" /\ session = 1
    /\ threshold = 60 /\ audio_device_index = 1
    /\ Len(chunk_accumulator) = 2
    /\ emitted = 1 /\ now < cooldown_time

\* The store without its unreadable metadata records
Readable == [ts \in {t \in DOMAIN store : store[t].meta # "corrupt"} |-> store[ts]]

\* The rows a scan of store st collects, and the fit retrain() makes of them
\* (NoFit when it returns False)
RowsOf(st) == {ts \in DOMAIN st :
                  /\ st[ts].meta = "ok" /\ st[ts].features # 0
                  /\ (st[ts].label # NoLabel \/ st[ts].shot_wav \/ st[ts].not_shot_wav)}
LabelOf(s) == IF s.label # NoLabel THEN s.label ELSE IF s.shot_wav THEN 1 ELSE 0
ScanFit(st) ==
    LET n0 == Cardinality({ts \in RowsOf(st) : LabelOf(st[ts]) = 0})
        n1 == Cardinality({ts \in RowsOf(st) : LabelOf(st[ts]) = 1})
    IN  IF ~SKLEARN_AVAILABLE \/ n0 + n1 < 10 \/ n0 = 0 \/ n1 = 0
        THEN NoFit ELSE [n0 |-> n0, n1 |-> n1]

\* C23: a classifier constructed over a model file that exists and is not a
\* complete bundle is in heuristic mode, and a classifier in heuristic mode
\* scores with the heuristic rules whatever its model field holds; the scan
\* of retrain() returns what it would return on the store without its
\* unreadable metadata records.
C23_CorruptIsAbsent ==
    [][/\ (Constructs /\ modelFile.exists /\ ~modelFile.valid) => mode' = "heuristic"
       /\ (wpc = "classify" /\ wpc' # "classify" /\ mode = "heuristic")
          => /\ wpc' = "decide"
             /\ confidence' = ClassifyHeuristic(FeatureProfile(features))
       /\ (uiPc = "retrain" /\ uiPc' # "retrain")
          => IF ScanFit(Readable) = NoFit
             THEN uiPc' = "idle" /\ retrainResult' = "false" /\ fit' = fit
             ELSE uiPc' = "retrain_save" /\ fit' = ScanFit(Readable)]_vars

C23_Witness ==
    /\ modelFile = IncompleteBundle /\ SKLEARN_AVAILABLE
    /\ wpc = "decide" /\ mode = "heuristic" /\ model = OldBundle.model
    /\ retrainResult = "false" /\ Cardinality(Rows) = MIN_SAMPLES - 1
    /\ \E ts \in DOMAIN store : store[ts].meta = "corrupt"

\* the name is trigger_<anything>_meta.json
IsMetaName(n) ==
    /\ Len(n) >= 4
    /\ n[1] = "trigger" /\ n[2] = "_"
    /\ n[Len(n) - 1] = "_" /\ n[Len(n)] = "meta.json"

\* C24: what training_sample_count returns is the number of names
\* trigger_*_meta.json in the directory as it is at the call, whatever else
\* the directory holds, and 0 when there is no directory.
C24_CountsMetaFiles ==
    counted => count_result = IF dir_exists
                              THEN Cardinality({n \in dir_names : IsMetaName(n)})
                              ELSE 0

C24_Witness ==
    /\ counted /\ count_result = 3
    /\ Cardinality(dir_names) = Cardinality(FileNames)

\* The rule table: points for the first bound of a feature that is passed
Above(v, tiers) ==
    IF \E i \in 1..Len(tiers) : v > tiers[i][1]
    THEN tiers[CHOOSE i \in 1..Len(tiers) :
                   v > tiers[i][1] /\ \A j \in 1..(i - 1) : ~(v > tiers[j][1])][2]
    ELSE 0
Below(v, tiers) ==
    IF \E i \in 1..Len(tiers) : v < tiers[i][1]
    THEN tiers[CHOOSE i \in 1..Len(tiers) :
                   v < tiers[i][1] /\ \A j \in 1..(i - 1) : ~(v < tiers[j][1])][2]
    ELSE 0
RuleSum(f) ==
    Above(f.crest_factor, <<<<6, 25>>, <<4, 15>>, <<3, 5>>>>)
    + Above(f.impact_ratio, <<<<30, 25>>, <<15, 15>>, <<8, 5>>>>)
    + Below(f.rise_time, <<<<30, 20>>, <<80, 10>>, <<150, 5>>>>)
    + (IF f.zcr \in 6..34 THEN 10 ELSE 0)
    + (IF f.spectral_centroid \in 1501..4999 THEN 15
       ELSE IF f.spectral_centroid \in 801..6999 THEN 5 ELSE 0)
    - (IF f.energy_0_500 > 70 THEN 15 ELSE 0)

\* C25: in heuristic mode the confidence returned is the sum of the rule
\* table's points, raised to 0.0 when negative and lowered to 1.0 when above;
\* it lies in [0, 1], is below 0.3 for all-zero features and above 0.5 for
\* crest_factor 8.0, impact_ratio 0.35, rise_time 10, zcr 0.15,
\* spectral_centroid 3000.
C25_HeuristicScore ==
    h_called
    => /\ h_result \in 0..100
       /\ h_result = IF RuleSum(h_features) < 0 THEN 0
                     ELSE IF RuleSum(h_features) > 100 THEN 100
                     ELSE RuleSum(h_features)
       /\ (\A k \in DOMAIN h_features : h_features[k] = 0) => h_result < 30
       /\ (/\ h_features.crest_factor = 8 /\ h_features.impact_ratio = 35
           /\ h_features.rise_time = 10 /\ h_features.zcr = 15
           /\ h_features.spectral_centroid = 3000) => h_result > 50

C25_Witness ==
    /\ h_called /\ h_result = 0
    /\ RuleSum(h_features) < 0

\* C26: extract returns a mapping with exactly the 12 documented keys for every
\* input, the empty and the all-zero input included, and for the empty input
\* each of the 12 values is 0.0.
C26_TwelveKeys ==
    x_called
    => /\ DOMAIN x_result =
             {"rms", "peak", "crest_factor", "zcr", "spectral_centroid",
              "spectral_rolloff", "energy_0_500", "energy_500_2k", "energy_2k_6k",
              "energy_6k_plus", "impact_ratio", "rise_time"}
       /\ Cardinality(DOMAIN x_result) = 12
       /\ x_samples = <<>> => \A k \in DOMAIN x_result : x_result[k] = 0

C26_Witness ==
    /\ x_called /\ x_samples = <<>>
    /\ \A k \in DOMAIN x_result : x_result[k] = 0

\* the last n items of a sequence
LastOf(q, n) == IF Len(q) <= n THEN q ELSE SubSeq(q, Len(q) - n + 1, Len(q))

\* C27: the buffer never holds more than int(duration * fps) frames, it holds
\* the most recently added frames since the last clear in insertion order
\* with their timestamps, get_frames returns just those, and the buffer is
\* empty after clear.
C27_CircularBuffer ==
    /\ Len(buffer) <= max_frames
    /\ buffer = LastOf(fb_added, max_frames)
    /\ fb_fresh => fb_returned = LastOf(fb_added, max_frames)
    /\ fb_added = <<>> => buffer = <<>>

C27_Witness ==
    /\ fb_fresh /\ max_frames = 3 /\ Len(fb_added) = 4
    /\ fb_returned = SubSeq(fb_added, 2, 4)

\* ------------------------------------------------------------------ C28
\* the video files an entry records for its clip
ClipVideoFiles(clip) ==
    IF clip.has_camera_files
    THEN {clip.camera_files[c] : c \in DOMAIN clip.camera_files}
    ELSE {clip.file}

\* the positions of the entries that are not marked
Unmarked(list) == {j \in 1..Len(list) : ~list[j].marked_not_shot}

\* C28: mark_as_not_shot with an index in range leaves none of the clip's
\* video files and not its thumbnail in the folder, sets marked_not_shot on
\* that entry, changes no other entry and nothing else of that entry, and
\* returns True; with an index out of range it returns False and changes
\* neither the list nor the folder, clips.json or the training store.
\* get_visible_clips returns the entries that are not marked, each once, in
\* the order of the list.
C28_MarkAsNotShot ==
    [][/\ rm_last'.op = "mark_as_not_shot" =>
            LET i == rm_last'.index IN
            IF 0 <= i /\ i < Len(rm_clips)
            THEN /\ rm_last'.returned
                 /\ ClipVideoFiles(rm_clips[i + 1]) \cap session_folder' = {}
                 /\ rm_clips[i + 1].thumbnail \notin session_folder'
                 /\ Len(rm_clips') = Len(rm_clips)
                 /\ rm_clips'[i + 1].marked_not_shot
                 /\ \A j \in 1..Len(rm_clips) :
                      [rm_clips'[j] EXCEPT !.marked_not_shot = rm_clips[j].marked_not_shot]
                          = rm_clips[j]
                 /\ \A j \in 1..Len(rm_clips) : j # i + 1 => rm_clips'[j] = rm_clips[j]
            ELSE /\ ~rm_last'.returned
                 /\ rm_clips' = rm_clips
                 /\ session_folder' = session_folder
                 /\ clips_json' = clips_json
                 /\ store' = store
       /\ rm_last'.op = "get_visible_clips" =>
            LET visible == rm_last'.value IN
            /\ Len(visible) = Cardinality(Unmarked(rm_clips))
            /\ \A j \in Unmarked(rm_clips) :
                 visible[Cardinality({k \in Unmarked(rm_clips) : k <= j})] = rm_clips[j]
      ]_vars

\* a clip with a thumbnail was marked, and another clip is still visible
\* with its file in the folder
C28_Witness ==
    /\ rm_last.op = "mark_as_not_shot" /\ rm_last.returned
    /\ rm_clips[rm_last.index + 1].thumbnail # NoFile
    /\ \E j \in Unmarked(rm_clips) : rm_clips[j].file \in session_folder

\* ------------------------------------------------------------------ C29
\* shot_NNNN.mp4 and shot_NNNN_camX.mp4
IsPrimaryFile(name) ==
    Len(name) = 4 /\ name[1] = "shot" /\ name[4] = ".mp4" /\ ParseInt(name[3]) # NotANumber
IsSecondaryFile(name) ==
    Len(name) = 7 /\ name[1] = "shot" /\ name[5] = "cam" /\ name[7] = ".mp4"

\* the entries of clips.json as the constructor finds it
ListedIn(json) == IF json.exists /\ json.readable THEN json.clips ELSE <<>>

\* C29: the constructor keeps the entries of clips.json, adds exactly one
\* entry for each primary file shot_NNNN.mp4 of the folder that no entry of
\* clips.json names, and adds no entry whose file is a secondary-camera file
\* shot_NNNN_camX.mp4.
C29_OrphanRecovery ==
    [][rm_last'.op = "__init__" =>
         LET listed == ListedIn(clips_json)
             added == (Len(listed) + 1)..Len(rm_clips')
         IN  /\ Len(rm_clips') >= Len(listed)
             /\ SubSeq(rm_clips', 1, Len(listed)) = listed
             /\ \A name \in session_folder :
                  (IsPrimaryFile(name) /\ \A i \in 1..Len(listed) : listed[i].file # name)
                  => Cardinality({j \in added : rm_clips'[j].file = name}) = 1
             /\ \A j \in added : ~IsSecondaryFile(rm_clips'[j].file)
      ]_vars

\* ------------------------------------------------------------------ C30
\* C30: save_clip with a non-empty frames mapping appends exactly one entry,
\* named shot_<shot_count as 4 digits>.mp4, leaves the primary camera of the
\* mapping in the folder under that name and every other camera of the
\* mapping under shot_NNNN_cam<id>.mp4, and increments shot_count by 1; with
\* an empty mapping it returns None and changes neither shot_count, the list
\* nor the folder.
C30_SaveClip ==
    [][rm_last'.op = "save_clip" =>
         LET frames == rm_last'.frames
             primary == rm_last'.primary_camera
             number == Format4(shot_count)
         IN  IF DOMAIN frames # {}
             THEN /\ Len(rm_clips') = Len(rm_clips) + 1
                  /\ SubSeq(rm_clips', 1, Len(rm_clips)) = rm_clips
                  /\ rm_clips'[Len(rm_clips')].file = PrimaryName(number)
                  /\ primary \in DOMAIN frames => PrimaryName(number) \in session_folder'
                  /\ \A c \in DOMAIN frames \ {primary} :
                       SecondaryName(number, CamStr(c)) \in session_folder'
                  /\ shot_count' = shot_count + 1
             ELSE /\ rm_last'.value = <<>>
                  /\ shot_count' = shot_count
                  /\ rm_clips' = rm_clips
                  /\ session_folder' = session_folder
                  /\ clips_json' = clips_json
      ]_vars

\* ------------------------------------------------------------------ C31
\* C31: delete_clip with an index in range removes exactly that entry (the
\* others keep their order), leaves none of the clip's video files and not
\* its thumbnail in the folder, writes the new list to clips.json and
\* returns True; with an index out of range it returns False and changes
\* neither the list, clips.json nor the folder.
C31_DeleteClip ==
    [][rm_last'.op = "delete_clip" =>
         LET i == rm_last'.index IN
         IF 0 <= i /\ i < Len(rm_clips)
         THEN /\ rm_last'.returned
              /\ Len(rm_clips') = Len(rm_clips) - 1
              /\ \A j \in 1..Len(rm_clips') :
                   rm_clips'[j] = rm_clips[IF j <= i THEN j ELSE j + 1]
              /\ ClipVideoFiles(rm_clips[i + 1]) \cap session_folder' = {}
              /\ rm_clips[i + 1].thumbnail \notin session_folder'
              /\ session_folder' \subseteq session_folder
              /\ clips_json' = [exists |-> TRUE, readable |-> TRUE, clips |-> rm_clips']
         ELSE /\ ~rm_last'.returned
              /\ rm_clips' = rm_clips
              /\ clips_json' = clips_json
              /\ session_folder' = session_folder
      ]_vars

\* a clip that was not the last of at least three was deleted and its
\* successor still has its file
C31_Witness ==
    /\ rm_last.op = "delete_clip" /\ rm_last.returned
    /\ rm_last.index + 1 <= Len(rm_clips)
    /\ Len(rm_clips) >= 2
    /\ rm_clips[rm_last.index + 1].file \in session_folder

\* ------------------------------------------------------------------ C34
\* C34: no two entries of the clip list have the same file name, whatever
\* sequence of save_clip, delete_clip, mark_as_not_shot and re-opening of the
\* session folder led to the list.
C34_UniqueFileNames ==
    \A i, j \in 1..Len(rm_clips) : i # j => rm_clips[i].file # rm_clips[j].file

\* ------------------------------------------------------------------ C37
\* the rewrite of the metadata failed in this step
RewriteFailed ==
    /\ relabel_ts \in DOMAIN store
    /\ store[relabel_ts].meta = "ok" /\ store'[relabel_ts].meta = "corrupt"

SavesClip == Len(clips') = Len(clips) + 1

\* C33: the timestamp stored on a saved clip is the one written by the
\* trigger that started the clip's recording: when the clip is saved, the
\* trigger that last wrote last_trigger_timestamp is the trigger that
\* started the recording.
C33_ClipKeepsItsTrigger ==
    [][SavesClip => lastTrigger = recTrigger]_vars

\* ------------------------------------------------------------------ C35
\* C35: a recording starts only in a step taken while armed and not
\* recording; while a recording is in progress no step changes its start
\* time or the trigger it belongs to; a clip is saved only by the step that
\* ends a recording, and that step saves one clip at most.
C35_OneRecording ==
    [][/\ (~is_recording /\ is_recording') => is_armed
       /\ (is_recording /\ is_recording') =>
            (recording_start_time' = recording_start_time /\ recTrigger' = recTrigger)
       /\ (is_recording /\ ~is_recording') => Len(clips') <= Len(clips) + 1
       /\ Len(clips') # Len(clips) =>
            (is_recording /\ ~is_recording' /\ Len(clips') = Len(clips) + 1)
      ]_vars

\* a trigger was handled while the recording of another one was in progress
C35_Witness ==
    /\ is_recording
    /\ lastTrigger # recTrigger
    /\ recording_start_time < now

\* ------------------------------------------------------------------ C38
\* C38: the threshold written into the metadata of a sample is the value the
\* worker read for the gate and the decision of the window that fired.
C38_ThresholdOfDecision ==
    [][SavesMeta => store'[Timestamp(now)].threshold = thresh]_vars

\* ------------------------------------------------------------------ C32
\* the last n evaluated checks all had the outcome v
LastAll(history, n, v) ==
    /\ Len(history) >= n
    /\ \A i \in (Len(history) - n + 1)..Len(history) : history[i] = v

\* C32: a call of check less than 0.5 s after the last evaluated one returns
\* None and changes neither the state, the counters nor the time of the last
\* evaluated check.  An evaluated call makes person_present True exactly when
\* it was False and the last 3 evaluated checks, this one included, detected
\* a person; makes it False exactly when it was True and the last 6 detected
\* none; and returns the new state when it differs from the old one and None
\* otherwise.
C32_Hysteresis ==
    [][pd_now' = pd_now =>
         IF pd_now - last_check_time < 5
         THEN /\ pd_result' = "None"
              /\ UNCHANGED <<last_check_time, person_present, consecutive_present,
                             consecutive_absent>>
         ELSE /\ ~person_present => (person_present' <=> LastAll(pd_detected', 3, TRUE))
              /\ person_present => (~person_present' <=> LastAll(pd_detected', 6, FALSE))
              /\ pd_result' = IF person_present' = person_present THEN "None"
                              ELSE IF person_present' THEN "True" ELSE "False"
      ]_vars

\* the person was confirmed and has just been found to have left
C32_Witness ==
    /\ pd_result = "False" /\ ~person_present
    /\ LastAll(pd_detected, 6, FALSE)

\* ------------------------------------------------------------------ C36
\* the reconnect loop reopens the stream in this step, the thread running
Reconnects == cam_pc = "rc_sleep" /\ cam_running /\ ~cap_open /\ cap_open'

\* C36: when the reconnect loop reopens the stream while the thread is
\* running, the thread reports 'connected' and is in its read loop again,
\* whichever failure started the loop; and the reconnect loop is left only
\* with the stream open or with running cleared.
C36_ReconnectResumes ==
    [][/\ Reconnects => (connection_state' = "connected" /\ cam_pc' = "loop")
       /\ (cam_pc \in {"rc_test", "rc_sleep"} /\ cam_pc' \notin {"rc_test", "rc_sleep"})
            => (cap_open' \/ ~cam_running)
      ]_vars

====
